---- MODULE Spec2Model ----
(***************************************************************************)
(* Shilling Sense: the transaction enrichment pipeline.                    *)
(*                                                                         *)
(*   services/heuristicService.ts        extractHeuristicData              *)
(*   services/merchantCategoryMapService getCategoryForMerchant            *)
(*   services/cachingService.ts          getCachedEnrichment / set...      *)
(*   services/geminiService.ts           retryWithBackoff, enrichTransaction,*)
(*                                       batchEnrichTransactions, parse...  *)
(*                                                                         *)
(* JavaScript strings are TLA+ strings; a character is a string of length  *)
(* one, read with SubSeq.  JavaScript objects are functions from the keys  *)
(* that are present to their values, so that object spread is modelled     *)
(* key by key.                                                             *)
(***************************************************************************)
EXTENDS Integers, Sequences, FiniteSets, TLC

(***************************************************************************)
(* Characters and strings                                                  *)
(***************************************************************************)

CharAt(s, i) == SubSeq(s, i, i)

UpperLetters ==
    {"A","B","C","D","E","F","G","H","I","J","K","L","M",
     "N","O","P","Q","R","S","T","U","V","W","X","Y","Z"}

LowerLetters ==
    {"a","b","c","d","e","f","g","h","i","j","k","l","m",
     "n","o","p","q","r","s","t","u","v","w","x","y","z"}

Digits == {"0","1","2","3","4","5","6","7","8","9"}

\* String.prototype.toLowerCase on one character
LowerChar(c) ==
    CASE c = "A" -> "a" [] c = "B" -> "b" [] c = "C" -> "c" [] c = "D" -> "d"
      [] c = "E" -> "e" [] c = "F" -> "f" [] c = "G" -> "g" [] c = "H" -> "h"
      [] c = "I" -> "i" [] c = "J" -> "j" [] c = "K" -> "k" [] c = "L" -> "l"
      [] c = "M" -> "m" [] c = "N" -> "n" [] c = "O" -> "o" [] c = "P" -> "p"
      [] c = "Q" -> "q" [] c = "R" -> "r" [] c = "S" -> "s" [] c = "T" -> "t"
      [] c = "U" -> "u" [] c = "V" -> "v" [] c = "W" -> "w" [] c = "X" -> "x"
      [] c = "Y" -> "y" [] c = "Z" -> "z" [] OTHER -> c

RECURSIVE toLowerCase(_)
toLowerCase(s) ==
    IF Len(s) = 0 THEN "" ELSE LowerChar(CharAt(s, 1)) \o toLowerCase(SubSeq(s, 2, Len(s)))

\* the character classes the extractor patterns use (all patterns carry /i)
IsSpace(c)  == c \in {" ", "\t", "\n", "\r"}
IsDigit(c)  == c \in Digits
IsLetter(c) == c \in UpperLetters \cup LowerLetters
IsWord(c)   == IsLetter(c) \/ IsDigit(c) \/ c = "_"

InClass(cls, c) ==
    CASE cls = "any"        -> c \notin {"\n", "\r"}             \* .
      [] cls = "digit"      -> IsDigit(c)                        \* \d
      [] cls = "space"      -> IsSpace(c)                        \* \s
      [] cls = "nonspace"   -> ~IsSpace(c)                       \* \S
      [] cls = "letter"     -> IsLetter(c)                       \* [A-Z] under /i
      [] cls = "digitdash"  -> IsDigit(c) \/ c = "-"             \* [\d-]
      [] cls = "agent"      -> IsWord(c) \/ IsSpace(c) \/ c = "-" \* [\d\w\s-]
      [] cls = "name"       -> IsLetter(c) \/ IsSpace(c) \/ c = "&" \* [A-Z\s&] under /i
      [] OTHER              -> FALSE

\* String.prototype.trim
RECURSIVE trimStart(_)
trimStart(s) ==
    IF Len(s) > 0 /\ IsSpace(CharAt(s, 1)) THEN trimStart(SubSeq(s, 2, Len(s))) ELSE s

RECURSIVE trimEnd(_)
trimEnd(s) ==
    IF Len(s) > 0 /\ IsSpace(CharAt(s, Len(s))) THEN trimEnd(SubSeq(s, 1, Len(s) - 1)) ELSE s

\* the string as it is
untrimmed(s) == s

trim(s) == trimEnd(trimStart(s))

\* s.replace(/\s+/g, ' '): every maximal run of whitespace becomes one space
RECURSIVE collapseSpaces(_)
collapseSpaces(s) ==
    IF Len(s) = 0 THEN ""
    ELSE IF IsSpace(CharAt(s, 1))
         THEN " " \o collapseSpaces(trimStart(s))
         ELSE CharAt(s, 1) \o collapseSpaces(SubSeq(s, 2, Len(s)))

\* does the literal lit (given in lower case) stand at position i of s, ignoring case
LitAt(lit, s, i) ==
    /\ i + Len(lit) - 1 <= Len(s)
    /\ toLowerCase(SubSeq(s, i, i + Len(lit) - 1)) = lit

\* String.prototype.includes
includes(s, sub) ==
    \E i \in 1..(Len(s) - Len(sub) + 1) : SubSeq(s, i, i + Len(sub) - 1) = sub

(***************************************************************************)
(* Regular expressions, as the extractor patterns use them.  A pattern is  *)
(* a sequence of nodes; matching is the backtracking search of the         *)
(* JavaScript engine: alternatives and repetition counts are tried in      *)
(* priority order and the first complete match wins.                       *)
(***************************************************************************)

Lit(str)              == [k |-> "lit", s |-> str]                       \* literal, lower case, /i
\* a character class repeated lo..hi times (hi is ignored when inf), greedy or lazy
Rep(cls, lo, hi, inf, lz) ==
    [k |-> "cls", c |-> cls, min |-> lo, max |-> hi, inf |-> inf, lazy |-> lz]
One(cls)              == Rep(cls, 1, 1, FALSE, FALSE)
Exactly(cls, n)       == Rep(cls, n, n, FALSE, FALSE)                   \* X{n}
AtLeast(cls, n)       == Rep(cls, n, n, TRUE, FALSE)                    \* X{n,}
Plus(cls)             == Rep(cls, 1, 1, TRUE, FALSE)                    \* X+
Star(cls)             == Rep(cls, 0, 0, TRUE, FALSE)                    \* X*
LazyPlus(cls)         == Rep(cls, 1, 1, TRUE, TRUE)                     \* X+?
EndAnchor             == [k |-> "end"]                                  \* $
Alt(alts)             == [k |-> "alt", a |-> alts]                      \* (?:a|b)
Look(alts)            == [k |-> "look", a |-> alts]                     \* (?=a|b)
Cap(re)               == [k |-> "cap", r |-> re]                        \* ( ... )

\* length of the run of characters of class cls that starts at position i
RECURSIVE RunLen(_, _, _)
RunLen(cls, s, i) ==
    IF i <= Len(s) /\ InClass(cls, CharAt(s, i)) THEN 1 + RunLen(cls, s, i + 1) ELSE 0

\* the positions a repetition can end at, in the order the engine tries them
ClsEnds(node, s, i) ==
    LET run == RunLen(node.c, s, i)
        hi  == IF node.inf \/ run < node.max THEN run ELSE node.max
        n   == hi - node.min + 1
    IN  IF n <= 0 THEN << >>
        ELSE [j \in 1..n |-> IF node.lazy THEN i + node.min + (j - 1)
                                          ELSE i + hi - (j - 1)]

RECURSIVE AllEnds(_, _, _), NodeEnds(_, _, _), AltEnds(_, _, _), ChainEnds(_, _, _)

\* every position the pattern re can end at when it starts at i, in priority order
AllEnds(re, s, i) ==
    IF re = << >> THEN << i >>
    ELSE ChainEnds(Tail(re), s, NodeEnds(Head(re), s, i))

ChainEnds(rest, s, ends) ==
    IF ends = << >> THEN << >>
    ELSE AllEnds(rest, s, Head(ends)) \o ChainEnds(rest, s, Tail(ends))

NodeEnds(node, s, i) ==
    CASE node.k = "lit"  -> IF LitAt(node.s, s, i) THEN << i + Len(node.s) >> ELSE << >>
      [] node.k = "cls"  -> ClsEnds(node, s, i)
      [] node.k = "end"  -> IF i = Len(s) + 1 THEN << i >> ELSE << >>
      [] node.k = "alt"  -> AltEnds(node.a, s, i)
      [] node.k = "look" -> IF AltEnds(node.a, s, i) # << >> THEN << i >> ELSE << >>
      [] node.k = "cap"  -> AllEnds(node.r, s, i)

AltEnds(alts, s, i) ==
    IF alts = << >> THEN << >>
    ELSE AllEnds(Head(alts), s, i) \o AltEnds(Tail(alts), s, i)

NoMatch == [ok |-> FALSE, cap |-> ""]

RECURSIVE MatchSeq(_, _, _, _), TryEnds(_, _, _, _, _, _)

\* the first complete match of re at position i, with the text of its capture group
MatchSeq(re, s, i, cap) ==
    IF re = << >> THEN [ok |-> TRUE, cap |-> cap]
    ELSE TryEnds(Head(re), Tail(re), s, i, NodeEnds(Head(re), s, i), cap)

TryEnds(node, rest, s, i, ends, cap) ==
    IF ends = << >> THEN NoMatch
    ELSE LET e == Head(ends)
             c == IF node.k = "cap" THEN SubSeq(s, i, e - 1) ELSE cap
             r == MatchSeq(rest, s, e, c)
         IN  IF r.ok THEN r ELSE TryEnds(node, rest, s, i, Tail(ends), cap)

\* String.prototype.match without /g: the leftmost start position that matches
RECURSIVE SearchFrom(_, _, _)
SearchFrom(re, s, i) ==
    IF i > Len(s) + 1 THEN NoMatch
    ELSE LET r == MatchSeq(re, s, i, "")
         IN  IF r.ok THEN r ELSE SearchFrom(re, s, i + 1)

match(s, re) == SearchFrom(re, s, 1)

(***************************************************************************)
(* JavaScript values                                                       *)
(***************************************************************************)

JNull     == [t |-> "null"]
JUndef    == [t |-> "undefined"]
Str(x)    == [t |-> "string", v |-> x]
Obj(o)    == [t |-> "object", v |-> o]

\* ToBoolean, for the values the pipeline tests with if (...) and ||
Truthy(x) == x.t = "object" \/ (x.t = "string" /\ x.v # "")

\* a || b
OrElse(a, b) == IF Truthy(a) THEN a ELSE b

\* o.key on an object given as a function from its present keys
Get(o, key) == IF key \in DOMAIN o THEN o[key] ELSE JUndef

\* { ...a, ...b }: every key of b, present even if undefined, overrides a's
Spread(a, b) ==
    [key \in DOMAIN a \cup DOMAIN b |-> IF key \in DOMAIN b THEN b[key] ELSE a[key]]

\* JSON.parse(JSON.stringify(o)) on a flat object: undefined properties are dropped
JsonRoundTrip(o) == [key \in {x \in DOMAIN o : o[x] # JUndef} |-> o[key]]

(***************************************************************************)
(* Pattern Extractor (heuristicService)                                    *)
(***************************************************************************)

\* Rules to extract merchant names.  The order is important.
merchantExtractors ==
    << [regex  |-> << Lit("lipa na m-pesa to "), Cap(<< LazyPlus("any") >>),
                      Alt(<< << Lit(" transaction id:") >>, << EndAnchor >> >>) >>,
        prefix |-> ""],
       [regex  |-> << Lit("pay bill to "), Cap(<< LazyPlus("any") >>),
                      Alt(<< << Lit(" acc no."), Star("any") >>, << EndAnchor >> >>) >>,
        prefix |-> ""],
       [regex  |-> << Lit("m-pesa paybill, "), Cap(<< LazyPlus("any") >>), Lit(",") >>,
        prefix |-> ""],
       [regex  |-> << Lit("card purchase at "), Cap(<< LazyPlus("any") >>),
                      Alt(<< << Lit(" on "), Star("any") >>, << EndAnchor >> >>) >>,
        prefix |-> ""],
       [regex  |-> << Lit("withdrawal from agent "), Cap(<< LazyPlus("agent") >>),
                      Alt(<< << Lit(" at "), Star("any") >>, << EndAnchor >> >>) >>,
        prefix |-> "Agent "],
       [regex  |-> << Lit("ke-"), Plus("digitdash"), Plus("space"),
                      Cap(<< One("letter"), LazyPlus("name") >>),
                      Look(<< << Plus("space"),
                                 Alt(<< << One("digit") >>, << Lit("pesa") >> >>) >>,
                              << Lit("|") >> >>) >>,
        prefix |-> ""],
       [regex  |-> << Lit("debit card txn at "), Cap(<< LazyPlus("any") >>),
                      Alt(<< << AtLeast("space", 2) >>,
                             << Exactly("digit", 2), Lit("-"), Exactly("digit", 2),
                                Lit("-"), Exactly("digit", 4) >> >>) >>,
        prefix |-> ""],
       [regex  |-> << Lit("ibanking trf "), Alt(<< << Lit("to") >>, << Lit("from") >> >>),
                      Lit(" "), Plus("digit"), Lit(" "), Cap(<< LazyPlus("any") >>),
                      EndAnchor >>,
        prefix |-> ""],
       [regex  |-> << Lit("pesa "), Plus("nonspace"), Lit(" "), Cap(<< LazyPlus("any") >>),
                      Lit(" "), Exactly("digit", 4) >>,
        prefix |-> ""],
       [regex  |-> << Lit("rtgs "), Plus("any"), Lit(" itf "), Cap(<< LazyPlus("any") >>),
                      Lit(" ke") >>,
        prefix |-> ""] >>

\* the rule list of the second copy of the service (part_005, lines 66-80): the
\* first five rules are the same, the bank formats differ
merchantExtractors2 ==
    SubSeq(merchantExtractors, 1, 5) \o
    << [regex  |-> << Lit("ibkg mpesa pay to "), Plus("digit"), Lit("-"),
                      Cap(<< LazyPlus("any") >>), Lit("-mobile money") >>,
        prefix |-> ""],
       [regex  |-> << Lit("debit card txn at "), Cap(<< LazyPlus("any") >>),
                      Alt(<< << AtLeast("space", 2) >>,
                             << Lit(" "), Exactly("digit", 2), Lit("-"),
                                Exactly("digit", 2), Lit("-"), Exactly("digit", 4) >> >>) >>,
        prefix |-> ""],
       [regex  |-> << Lit("ke-"), Plus("digit"), Lit("-"), Plus("digit"), Lit("-"),
                      Plus("digit"), Lit("-"), Plus("digit"), Lit(" "),
                      Cap(<< LazyPlus("any") >>), Lit(" "), Plus("digit") >>,
        prefix |-> ""],
       [regex  |-> << Lit("ibkg mpesa pay to "), Plus("digit"), Lit("-"),
                      Cap(<< LazyPlus("any") >>), Lit("-airtime") >>,
        prefix |-> ""],
       [regex  |-> << Lit("ibkg mpesa pay to "), Plus("digit"), Lit("-"),
                      Cap(<< LazyPlus("any") >>), Lit("-mobile money transfer") >>,
        prefix |-> ""] >>

\* a loop that lets the last matching rule of the list win
RECURSIVE extractWithLast(_, _, _)
extractWithLast(extractors, trimmedDescription, n) ==
    IF n > Len(extractors)
    THEN [merchant |-> JNull, cacheKey |-> trimmedDescription]
    ELSE LET later == extractWithLast(extractors, trimmedDescription, n + 1)
             m     == match(trimmedDescription, extractors[n].regex)
         IN  IF later.merchant # JNull \/ ~(m.ok /\ m.cap # "")
             THEN later
             ELSE LET merchant == collapseSpaces(extractors[n].prefix \o trim(m.cap))
                  IN  [merchant |-> Str(merchant), cacheKey |-> merchant]

\* the for loop of extractHeuristicData over the rule list extractors, from rule n
\* on: the first rule that matches with a non-empty capture returns
RECURSIVE extractWith(_, _, _)
extractWith(extractors, trimmedDescription, n) ==
    IF n > Len(extractors)
    THEN [merchant |-> JNull, cacheKey |-> trimmedDescription]
    ELSE LET extractor == extractors[n]
             m         == match(trimmedDescription, extractor.regex)
         IN  IF m.ok /\ m.cap # ""
             THEN LET merchant == collapseSpaces(extractor.prefix \o trim(m.cap))
                  IN  [merchant |-> Str(merchant), cacheKey |-> merchant]
             ELSE extractWith(extractors, trimmedDescription, n + 1)

extractFrom(trimmedDescription, n) == extractWith(merchantExtractors, trimmedDescription, n)

extractHeuristicData(description) == extractFrom(trim(description), 1)

\* extractHeuristicData of the second copy of the service (part_005, lines 90-102)
extractHeuristicData2(description) == extractWith(merchantExtractors2, trim(description), 1)

(***************************************************************************)
(* Category Rule Table (merchantCategoryMapService)                        *)
(***************************************************************************)

\* a table that knows the supermarkets only
groceryRulesOnly ==
    << [keywords |-> << "naivas", "carrefour", "quickmart", "chandarana", "cleanshelf" >>,
        category |-> "Groceries"] >>

categoryRules ==
    << [keywords |-> << "naivas", "carrefour", "quickmart", "chandarana", "cleanshelf" >>,
        category |-> "Groceries"],
       [keywords |-> << "kplc", "kenya power", "prepaid", "postpaid" >>,
        category |-> "Utilities"],
       [keywords |-> << "zuku", "safaricom home", "faiba" >>, category |-> "Utilities"],
       [keywords |-> << "nairobi water", "nwsc" >>, category |-> "Utilities"],
       [keywords |-> << "java", "artcaffe", "kfc", "dominos", "pizza inn", "chicken inn" >>,
        category |-> "Eating Out"],
       [keywords |-> << "uber", "bolt", "little cab" >>, category |-> "Transport"],
       [keywords |-> << "total", "shell", "rubis", "ola" >>, category |-> "Transport"],
       [keywords |-> << "equity", "kcb", "co-op", "coop", "standard chartered",
                        "stanchart", "absia" >>,
        category |-> "Internal Transfer"],
       [keywords |-> << "nhif" >>, category |-> "Health"],
       [keywords |-> << "gotv", "dstv", "netflix" >>, category |-> "Entertainment"],
       [keywords |-> << "jumia", "kilimall" >>, category |-> "Shopping"] >>

\* the nested loops of getCategoryForMerchant from rule n on
RECURSIVE categoryFrom(_, _)
categoryFrom(lowerCaseMerchant, n) ==
    IF n > Len(categoryRules) THEN JNull
    ELSE IF \E j \in 1..Len(categoryRules[n].keywords) :
                includes(lowerCaseMerchant, categoryRules[n].keywords[j])
         THEN Str(categoryRules[n].category)
         ELSE categoryFrom(lowerCaseMerchant, n + 1)

\* a lookup that compares the name as written
getCategoryAsWritten(merchantName) == categoryFrom(merchantName, 1)

getCategoryForMerchant(merchantName) == categoryFrom(toLowerCase(merchantName), 1)

(***************************************************************************)
(* Enrichment Cache (cachingService)                                       *)
(*                                                                         *)
(* memoryCache is the module-level Map, or null before the first access;   *)
(* localStorage is the blob stored under CACHE_KEY: absent, unparsable, or *)
(* the JSON text of an object, kept here as the object it parses to.       *)
(***************************************************************************)

EmptyMap == [key \in {} |-> JUndef]

NullCache == [loaded |-> FALSE, map |-> EmptyMap]

\* a set that keeps the value a key already has
MapSetKeep(m, key, data) ==
    [x \in DOMAIN m \cup {key} |-> IF x \in DOMAIN m THEN m[x] ELSE data]

\* a set that leaves only the key written
MapSetOnly(m, key, data) == [x \in {key} |-> data]

\* Map.prototype.set
MapSet(m, key, data) == [x \in DOMAIN m \cup {key} |-> IF x = key THEN data ELSE m[x]]

\* Map.prototype.get
MapGet(m, key) == IF key \in DOMAIN m THEN Obj(m[key]) ELSE JUndef

\* a getCache that reads storage at every access
getCacheAlways(mc, ls) ==
    [loaded |-> TRUE, map |-> IF ls.kind = "json" THEN ls.map ELSE EmptyMap]

\* a getCache whose failing load leaves the module without a map
getCacheNoFallback(mc, ls) ==
    IF mc.loaded THEN mc
    ELSE IF ls.kind = "corrupt" THEN mc
    ELSE [loaded |-> TRUE, map |-> IF ls.kind = "json" THEN ls.map ELSE EmptyMap]

\* getCache: the map in memory, hydrated from storage on the first access; a missing
\* or corrupted blob gives an empty map
getCache(mc, ls) ==
    IF mc.loaded THEN mc
    ELSE [loaded |-> TRUE, map |-> IF ls.kind = "json" THEN ls.map ELSE EmptyMap]

\* a persistCache that writes nothing
persistSkipped(mc, ls, writable) == ls

\* persistCache: the whole map is serialised; a failing setItem is swallowed
persistCache(mc, ls, writable) ==
    IF mc.loaded /\ writable
    THEN [kind |-> "json", map |-> [key \in DOMAIN mc.map |-> JsonRoundTrip(mc.map[key])]]
    ELSE ls

\* getCachedEnrichment: the value read and the cache state it leaves
getCachedEnrichment(mc, ls, key) ==
    LET cache == getCache(mc, ls)
    IN  [value |-> MapGet(cache.map, key), mc |-> cache]

\* setCachedEnrichment: the cache state and the blob it leaves
setCachedEnrichment(mc, ls, writable, key, data) ==
    LET cache == getCache(mc, ls)
        after == [loaded |-> TRUE, map |-> MapSet(cache.map, key, data)]
    IN  [mc |-> after, ls |-> persistCache(after, ls, writable)]

\* a sequence of setCachedEnrichment calls, in order
RECURSIVE applyWrites(_, _, _, _)
applyWrites(mc, ls, writable, writes) ==
    IF writes = << >> THEN [mc |-> mc, ls |-> ls]
    ELSE LET w == setCachedEnrichment(mc, ls, writable, Head(writes).key, Head(writes).data)
         IN  applyWrites(w.mc, w.ls, writable, Tail(writes))

(***************************************************************************)
(* Remote Enrichment Client (geminiService): the pure parts                *)
(***************************************************************************)

Num(n)  == [t |-> "number", v |-> n]
Arr(xs) == [t |-> "array", v |-> xs]

\* retryWithBackoff(fn, retries = 3, delay = 500)
DefaultRetries == 3
DefaultDelay   == 500

\* a retryWithBackoff that gives up one retry early (retries <= 1 for
\* retries === 0): the schedule of C10 tells it from the code's
retryDecisionOneShort(rejects, retriesLeft) ==
    IF ~rejects THEN "returned"
    ELSE IF retriesLeft <= 1 THEN "threw" ELSE "backoff"

\* what retryWithBackoff does when fn has settled: return its value, rethrow the
\* error when no retries are left, or sleep before calling itself again
retryDecision(rejects, retriesLeft) ==
    IF ~rejects THEN "returned"
    ELSE IF retriesLeft = 0 THEN "threw" ELSE "backoff"

\* the arguments of the recursive call retryWithBackoff(fn, retries - 1, delay * 2)
nextRetries(retriesLeft) == retriesLeft - 1
nextDelay(d)             == d * 2

\* A response of generateContent: the call rejects (kind "error"), or resolves with
\* a text and grounding chunks.  The text is kept as what JSON.parse makes of it
\* after the fences and the prose around the outermost braces are cut away:
\* nothing (parsable = FALSE) or a JSON value.
cleanJsonInfo(text) ==
    IF text.parsable THEN [threw |-> FALSE, value |-> text.value]
    ELSE [threw |-> TRUE, value |-> JUndef]

\* the catch block of enrichTransaction's task
enrichFallback(transaction, identifiedMerchant) ==
    Spread(transaction, [merchant |-> OrElse(identifiedMerchant, Str("Unknown")),
                         category |-> Str("Other")])

\* a catch block that rethrows instead of returning the fallback: the task
\* rejects and retryWithBackoff takes over (C4 tells it from the code's)
enrichRethrown(transaction, identifiedMerchant) ==
    [rejects |-> TRUE, degraded |-> FALSE, value |-> JUndef, writes |-> << >>]

\* how enrichTransaction's task settles when its try block throws: the catch block
\* returns the fallback, so the task resolves
enrichCaught(transaction, identifiedMerchant) ==
    [rejects |-> FALSE, degraded |-> TRUE,
     value |-> Obj(enrichFallback(transaction, identifiedMerchant)),
     writes |-> << >>]

\* a cache entry holding finalData's fields as they are, without the defaults
\* (C3 tells it from the code's)
enrichCacheDataRaw(finalData) ==
    [merchant |-> Get(finalData, "merchant"),
     category |-> Get(finalData, "category"),
     enrichedInfo |-> Get(finalData, "enrichedInfo")]

\* the entry enrichTransaction's task passes to setCachedEnrichment
enrichCacheData(finalData) ==
    [merchant |-> OrElse(Get(finalData, "merchant"), Str("Unknown")),
     category |-> OrElse(Get(finalData, "category"), Str("Other")),
     enrichedInfo |-> Get(finalData, "enrichedInfo")]

\* The task enrichTransaction hands to retryWithBackoff, from the arrival of the
\* response on: whether the task rejects, the value it resolves with, whether that
\* value comes from the catch block, and the cache writes it makes.
enrichTask(transaction, identifiedMerchant, cacheKey, response) ==
    LET caught == enrichCaught(transaction, identifiedMerchant)
        parsed == cleanJsonInfo(response.text)
        enrichedData == parsed.value
        spreadable == IF enrichedData.t = "object" THEN enrichedData.v ELSE EmptyMap
        merged == Spread(transaction, spreadable)
        webChunks == SelectSeq(response.chunks, LAMBDA c : Truthy(c.web))
        web == Head(webChunks).web.v
        useWeb == ~Truthy(Get(merged, "enrichedInfo")) /\ webChunks # << >>
        \* firstWebResult.web.title || enrichedData.merchant reads a property of
        \* enrichedData only when the title is falsy
        typeError == useWeb /\ ~Truthy(Get(web, "title")) /\ enrichedData.t = "null"
        info == Obj([officialName |-> OrElse(Get(web, "title"), Get(spreadable, "merchant")),
                     website |-> OrElse(Get(web, "uri"), Str(""))])
        finalData == IF useWeb THEN Spread(merged, [enrichedInfo |-> info]) ELSE merged
        data == enrichCacheData(finalData)
    IN  IF response.kind = "error" \/ parsed.threw \/ typeError THEN caught
        ELSE [rejects |-> FALSE, degraded |-> FALSE, value |-> Obj(finalData),
              writes |-> << [key |-> cacheKey, data |-> data] >>]

\* transactions.find(t => t.index === index)
RECURSIVE findByIndex(_, _)
findByIndex(transactions, index) ==
    IF transactions = << >> THEN JUndef
    ELSE IF Num(Head(transactions).index) = index THEN Obj(Head(transactions))
         ELSE findByIndex(Tail(transactions), index)

\* results.forEach(...) of batchEnrichTransactions: the cache writes made, in order,
\* and whether reading result.index of a null element threw on the way
RECURSIVE batchForEach(_, _)
batchForEach(results, transactions) ==
    IF results = << >> THEN [threw |-> FALSE, writes |-> << >>]
    ELSE LET result == Head(results)
         IN  IF result.t = "null" THEN [threw |-> TRUE, writes |-> << >>]
             ELSE LET fields == IF result.t = "object" THEN result.v ELSE EmptyMap
                      originalTx == findByIndex(transactions, Get(fields, "index"))
                      mine == IF Truthy(originalTx)
                              THEN << [key |-> originalTx.v.cacheKey,
                                       data |-> [merchant |-> Get(fields, "merchant"),
                                                 category |-> Get(fields, "category"),
                                                 enrichedInfo |-> Get(fields, "enrichedInfo")]] >>
                              ELSE << >>
                      rest == batchForEach(Tail(results), transactions)
                  IN  [threw |-> rest.threw, writes |-> mine \o rest.writes]

\* the catch block of batchEnrichTransactions' task
batchFallback(transactions) ==
    [i \in 1..Len(transactions) |->
        Obj([index |-> Num(transactions[i].index),
             merchant |-> OrElse(transactions[i].identifiedMerchant, Str("Unknown")),
             category |-> Str("Other")])]

\* a catch block that rethrows instead of returning the fallback list: the task
\* rejects and retryWithBackoff asks again (C9 tells it from the code's)
batchRethrown(transactions, writes) ==
    [rejects |-> TRUE, degraded |-> FALSE, value |-> JUndef, writes |-> writes]

\* how batchEnrichTransactions' task settles when its try block throws, after the
\* cache writes made so far: the catch block returns the fallback list
batchCaught(transactions, writes) ==
    [rejects |-> FALSE, degraded |-> TRUE,
     value |-> Arr(batchFallback(transactions)), writes |-> writes]

\* the task batchEnrichTransactions hands to retryWithBackoff, from the arrival of
\* the response on
batchTask(transactions, response) ==
    LET parsed == cleanJsonInfo(response.text)
        results == parsed.value
        each == batchForEach(results.v, transactions)
        \* only an array has forEach
        failed == response.kind = "error" \/ parsed.threw \/ results.t # "array"
    IN  IF failed THEN batchCaught(transactions, << >>)
        ELSE IF each.threw THEN batchCaught(transactions, each.writes)
        ELSE [rejects |-> FALSE, degraded |-> FALSE, value |-> results,
              writes |-> each.writes]

\* the task of parseTransactionsFromFile and of parseBasicInfoFromText: the catch
\* block throws a new Error, so the task rejects
parseTask(response) ==
    LET parsed == cleanJsonInfo(response.text)
    IN  IF response.kind = "error" \/ parsed.threw
        THEN [rejects |-> TRUE, degraded |-> FALSE, value |-> JUndef, writes |-> << >>]
        ELSE [rejects |-> FALSE, degraded |-> FALSE, value |-> parsed.value,
              writes |-> << >>]

\* an enrichTransaction that never consults the rule table (C1 tells it from
\* the code's)
mappedCategoryNever(identifiedMerchant) == JNull

\* lines 173-175: the rule table is asked only about a truthy extracted merchant
mappedCategoryOf(identifiedMerchant) ==
    IF Truthy(identifiedMerchant)
    THEN getCategoryForMerchant(identifiedMerchant.v) ELSE JNull

\* a cache hit that prefers the cached merchant to the extracted one (C2 tells it
\* from the code's)
cachedMerchantFirst(identifiedMerchant, cachedData) ==
    OrElse(Get(cachedData, "merchant"), identifiedMerchant)

\* line 182: identifiedMerchant || cachedData.merchant
cacheHitMerchant(identifiedMerchant, cachedData) ==
    OrElse(identifiedMerchant, Get(cachedData, "merchant"))

\* enrichTransaction before its remote layer (lines 171-184): the rule table, then
\* the cache.  returns says whether the function has returned; reads counts the
\* calls of getCachedEnrichment; mc is the cache state it leaves.
enrichLocal(transaction, heuristic, mc, ls) ==
    LET identifiedMerchant == heuristic.merchant
        mappedCategory == mappedCategoryOf(identifiedMerchant)
        cached == getCachedEnrichment(mc, ls, heuristic.cacheKey)
        cachedData == cached.value
        merchant == cacheHitMerchant(identifiedMerchant, cachedData.v)
    IN  IF Truthy(identifiedMerchant) /\ Truthy(mappedCategory)
        THEN [returns |-> TRUE, layer |-> "rules", reads |-> 0, mc |-> mc,
              value |-> Obj(Spread(transaction, [merchant |-> identifiedMerchant,
                                                 category |-> mappedCategory]))]
        ELSE IF Truthy(cachedData)
        THEN [returns |-> TRUE, layer |-> "cache", reads |-> 1, mc |-> cached.mc,
              value |-> Obj(Spread(Spread(transaction, cachedData.v),
                                   [merchant |-> merchant]))]
        ELSE [returns |-> FALSE, layer |-> "remote", reads |-> 1, mc |-> cached.mc,
              value |-> JUndef]

(***************************************************************************)
(* Inputs of the model                                                     *)
(***************************************************************************)

\* at most this many service calls in one behaviour
MaxCalls == 2

\* statement lines: resolved by the rule table; a merchant the rule table does
\* not know; no merchant; a capture of white space only (an empty merchant)
Descriptions ==
    { "Lipa na M-PESA to Naivas Westlands Transaction ID: QWE",
      "Lipa na M-PESA to Mama Mboga",
      "ATM cash 500",
      "Lipa na M-PESA to   Transaction ID: X" }

heuristicData == [d \in Descriptions |-> extractHeuristicData(d)]

ExampleLists ==
    { << >>, << [description |-> "Mama Mboga", category |-> "Groceries"] >> }

\* the transaction AddTransactionModal builds: the parsed basic info, no merchant
\* and no category yet (amount, type and date play no part in enrichment)
TransactionOf(d) == [description |-> Str(d)]

KnownInfo == Obj([officialName |-> Str("Mama Mboga Ltd"), website |-> Str("https://mboga.ke")])

NoText == [parsable |-> FALSE, value |-> JUndef]

ErrorResponse      == [kind |-> "error", text |-> NoText, chunks |-> << >>]
UnparsableResponse == [kind |-> "text", text |-> NoText, chunks |-> << >>]
TextResponse(v, c) == [kind |-> "text", text |-> [parsable |-> TRUE, value |-> v], chunks |-> c]

\* grounding chunks: a web result with title and uri; a chunk that is no web
\* result followed by a web result without title and uri
TitledChunks   == << [web |-> Obj([title |-> Str("Mama Mboga Ltd"),
                                   uri |-> Str("https://mboga.ke")])] >>
UntitledChunks == << [web |-> JUndef], [web |-> Obj(EmptyMap)] >>

FullAnswer    == Obj([merchant |-> Str("Mama Mboga Grocers"), category |-> Str("Groceries")])
NoCategory    == Obj([merchant |-> Str("Mama Mboga Grocers")])
WithInfo      == Obj([merchant |-> Str("Mama Mboga"), category |-> Str("Groceries"),
                      enrichedInfo |-> KnownInfo])

\* what the remote client may answer to a single enrichment: a rejection, a text
\* that is no JSON, or a JSON value (null, {}, an object with some of the keys
\* asked for) with or without grounding chunks
EnrichResponses ==
    { ErrorResponse, UnparsableResponse,
      TextResponse(JNull, << >>),
      TextResponse(JNull, UntitledChunks),
      TextResponse(Obj(EmptyMap), << >>),
      TextResponse(Obj(EmptyMap), TitledChunks),
      TextResponse(FullAnswer, << >>),
      TextResponse(FullAnswer, TitledChunks),
      TextResponse(FullAnswer, UntitledChunks),
      TextResponse(NoCategory, << >>),
      TextResponse(WithInfo, TitledChunks) }

\* the statement under import: the description of the transaction at each index
StatementLine(index) ==
    IF index = 0 THEN "Lipa na M-PESA to Mama Mboga" ELSE "ATM cash 500"

\* the item ImportTransactionsModal pushes for the transaction at position index
ItemOf(index) ==
    LET d == StatementLine(index)
    IN  [index |-> index, description |-> d, cacheKey |-> heuristicData[d].cacheKey,
         identifiedMerchant |-> OrElse(heuristicData[d].merchant, JUndef)]

\* the lists of items passed to the batch, the empty one included
ItemLists ==
    { << >>, << ItemOf(0) >>, << ItemOf(2) >>, << ItemOf(0), ItemOf(2) >> }

BatchResult(index) ==
    Obj([index |-> Num(index), merchant |-> Str("Mama Mboga Grocers"),
         category |-> Str("Groceries")])

\* the arrays a batch answer may carry: results in the order asked, reordered,
\* for some indexes only, for an index twice, for an index never sent, with a null
\* element before or after a result
BatchArrays ==
    { << >>,
      << BatchResult(0) >>,
      << BatchResult(2) >>,
      << BatchResult(0), BatchResult(2) >>,
      << BatchResult(2), BatchResult(0) >>,
      << BatchResult(0), BatchResult(0) >>,
      << BatchResult(0), BatchResult(1) >>,
      << JNull, BatchResult(0) >>,
      << BatchResult(0), JNull >> }

\* what the remote client may answer to a batch: a rejection, a text that is no
\* JSON, an object, or an array
BatchResponses ==
    {ErrorResponse, UnparsableResponse, TextResponse(Obj(EmptyMap), << >>)}
        \cup {TextResponse(Arr(xs), << >>) : xs \in BatchArrays}

ParseResponses ==
    {ErrorResponse, UnparsableResponse, TextResponse(Arr(<< >>), << >>)}

\* the blobs storage may hold when the application starts
InitialBlobs ==
    { [kind |-> "absent", map |-> EmptyMap],
      [kind |-> "corrupt", map |-> EmptyMap],
      [kind |-> "json",
       map |-> [key \in {"Mama Mboga"} |->
                   [merchant |-> Str("Mama Mboga Shop"), category |-> Str("Food")]]] }

(***************************************************************************)
(* State                                                                   *)
(***************************************************************************)

VARIABLES
    memoryCache,      \* cachingService: the module-level Map, null until first used
    localStorage,     \* the blob under CACHE_KEY
    storageWritable,  \* whether localStorage.setItem succeeds (it throws on quota)
    pc,               \* where the current call stands: idle, reading, awaiting,
                      \* backoff, returned, threw
    call,             \* the call in progress or just finished, with its arguments
    retries,          \* retryWithBackoff: the retries argument of the current frame
    delay,            \* retryWithBackoff: the delay argument of the current frame
    result,           \* the value the call returned
    degraded,         \* whether that value was built by the task's catch block
    lastResponse,     \* the last response the remote client gave to this call
    attempts,         \* invocations of the task by retryWithBackoff in this call
    requests,         \* generateContent requests issued by this call
    waits,            \* the delays slept by this call, in order
    cacheReads,       \* getCachedEnrichment calls made by this call
    cacheWrites,      \* setCachedEnrichment calls made by this call
    entry,            \* the cache and the blob as they were when the call began
    calls,            \* calls begun so far
    validationCache,  \* geminiService: the module-level Map of validation verdicts
    step,             \* ImportTransactionsModal: the step shown
    parsedTransactions, \* ImportTransactionsModal: the rows under review
    enrichmentStatus, \* ImportTransactionsModal: { processed, total }
    error,            \* ImportTransactionsModal: the error message shown, or null
    enrichAll,        \* ImportTransactionsModal: where the effect's enrichAll stands:
                      \* idle, awaiting (the batch), done
    transactions,     \* FinancialContext: the transactions of the user
    budgets,          \* FinancialContext: the stored budgets
    userProfile,      \* FinancialContext: the profile, or null
    isOpen,           \* App: whether the BudgetModal is open
    drafts,           \* BudgetModal: the draft budgets shown
    avgMonthlyIncome, \* BudgetModal: the income average shown
    dictionary,       \* MerchantService: raw name -> enriched name
    pendingSearches,  \* MerchantService: the names being searched for
    invocations,      \* MerchantService: the identifyMerchants calls in progress
    inFlight,         \* the searches sent and not yet answered, as (invocation, name)
    merchantStorage   \* localStorage: the item stored under 'merchant_dictionary'

\* the state of the import dialog
modalVars == << step, parsedTransactions, enrichmentStatus, error, enrichAll >>

\* the state of the budget planner and of the stored budgets
plannerVars == << transactions, budgets, userProfile, isOpen, drafts, avgMonthlyIncome >>

\* the state of the merchant service
merchantVars == << dictionary, pendingSearches, invocations, inFlight, merchantStorage >>

\* what enrichment, validation, import and the cache leave alone
otherVars == << plannerVars, merchantVars >>

vars == << memoryCache, localStorage, storageWritable, pc, call, retries, delay,
           result, degraded, lastResponse, attempts, requests, waits, cacheReads,
           cacheWrites, entry, calls, validationCache, modalVars, otherVars >>

\* the entries a cache read would see: the map in memory once hydrated, before that
\* what hydration would load
CacheView(mc, ls) == getCache(mc, ls).map

NoItems == << >>

NoCall ==
    [op |-> "none", transaction |-> EmptyMap, examples |-> << >>, items |-> NoItems,
     identifiedMerchant |-> JNull, cacheKey |-> "", layer |-> "none"]

NoResponse == [kind |-> "none", text |-> NoText, chunks |-> << >>]

Init ==
    /\ memoryCache = NullCache
    /\ localStorage \in InitialBlobs
    /\ storageWritable \in BOOLEAN
    /\ pc = "idle"
    /\ call = NoCall
    /\ retries = DefaultRetries
    /\ delay = DefaultDelay
    /\ result = JUndef
    /\ degraded = FALSE
    /\ lastResponse = NoResponse
    /\ attempts = 0
    /\ requests = 0
    /\ waits = << >>
    /\ cacheReads = 0
    /\ cacheWrites = 0
    /\ entry = [memory |-> memoryCache, cache |-> EmptyMap, storage |-> localStorage]
    /\ calls = 0
    /\ validationCache = EmptyMap
    /\ step = "selectAccount"
    /\ parsedTransactions = << >>
    /\ enrichmentStatus = [processed |-> 0, total |-> 0]
    /\ error = JNull
    /\ enrichAll = "idle"
    /\ transactions = << >>
    /\ budgets = << >>
    /\ userProfile = JNull
    /\ isOpen = FALSE
    /\ drafts = << >>
    /\ avgMonthlyIncome = [num |-> 0, den |-> 1]
    /\ dictionary = EmptyMap
    /\ pendingSearches = {}
    /\ invocations = << >>
    /\ inFlight = {}
    /\ merchantStorage = [kind |-> "absent"]

Settled == pc \in {"idle", "returned", "threw"}

\* the bookkeeping every new call starts with
Begin ==
    /\ Settled
    /\ calls < MaxCalls
    /\ calls' = calls + 1
    /\ entry' = [memory |-> memoryCache, cache |-> CacheView(memoryCache, localStorage),
                 storage |-> localStorage]
    /\ retries' = DefaultRetries
    /\ delay' = DefaultDelay
    /\ waits' = << >>
    /\ lastResponse' = NoResponse
    /\ degraded' = FALSE
    /\ cacheWrites' = 0
    /\ UNCHANGED << localStorage, storageWritable >>

(***************************************************************************)
(* enrichTransaction(transaction, examples)                                *)
(***************************************************************************)

\* the call up to its first await: it returns from the rule table or the cache, or
\* hands its task to retryWithBackoff, which invokes it and sends the request
EnrichCall ==
    \E d \in Descriptions, ex \in ExampleLists :
        LET transaction == TransactionOf(d)
            heuristic == heuristicData[d]
            local == enrichLocal(transaction, heuristic, memoryCache, localStorage)
        IN  /\ Begin
            /\ UNCHANGED << validationCache, modalVars >>
            /\ call' = [op |-> "enrich", transaction |-> transaction, examples |-> ex,
                        items |-> NoItems, identifiedMerchant |-> heuristic.merchant,
                        cacheKey |-> heuristic.cacheKey, layer |-> local.layer]
            /\ memoryCache' = local.mc
            /\ cacheReads' = local.reads
            /\ result' = local.value
            /\ pc' = IF local.returns THEN "returned" ELSE "awaiting"
            /\ attempts' = IF local.returns THEN 0 ELSE 1
            /\ requests' = IF local.returns THEN 0 ELSE 1
            /\ UNCHANGED otherVars

\* statement lines of the repository's test script, up to the time of day or the
\* first reference (what follows plays no part in the match)
testCases ==
    { "IBKG MPESA PAY TO 254117449222-MOBILE MONEY KE-IBNK-HAOSP9",
      "DEBIT CARD TXN AT UBER * PENDING AMSTERDAM     17-11-2025 / 08:52:09",
      "DEBIT CARD TXN AT ZUCCHINI  LIMIT NAIROBI       14-11-2025 / 14:22:07",
      "IBKG MPESA PAY TO 254718460149-AIRTIME KE-IBNK-BK4DFA",
      "DEBIT CARD TXN AT MAF 8144 TILL 2 NAIROBI       12-11-2025 / 14:21:29" }

testCaseData == [d \in testCases |-> extractHeuristicData(d)]

\* enrichTransaction called on a line of the test script, with no learned examples
EnrichTestCase ==
    \E d \in testCases, ex \in { << >> } :
        LET transaction == TransactionOf(d)
            heuristic == testCaseData[d]
            local == enrichLocal(transaction, heuristic, memoryCache, localStorage)
        IN  /\ Begin
            /\ UNCHANGED << validationCache, modalVars >>
            /\ call' = [op |-> "enrich", transaction |-> transaction, examples |-> ex,
                        items |-> NoItems, identifiedMerchant |-> heuristic.merchant,
                        cacheKey |-> heuristic.cacheKey, layer |-> local.layer]
            /\ memoryCache' = local.mc
            /\ cacheReads' = local.reads
            /\ result' = local.value
            /\ pc' = IF local.returns THEN "returned" ELSE "awaiting"
            /\ attempts' = IF local.returns THEN 0 ELSE 1
            /\ requests' = IF local.returns THEN 0 ELSE 1
            /\ UNCHANGED otherVars

\* the response arrives: the rest of the task runs, then retryWithBackoff decides
EnrichRespond ==
    /\ pc = "awaiting"
    /\ call.op = "enrich"
    /\ \E response \in EnrichResponses :
        LET out == enrichTask(call.transaction, call.identifiedMerchant, call.cacheKey,
                              response)
            after == applyWrites(memoryCache, localStorage, storageWritable, out.writes)
        IN  /\ lastResponse' = response
            /\ memoryCache' = after.mc
            /\ localStorage' = after.ls
            /\ cacheWrites' = cacheWrites + Len(out.writes)
            /\ result' = out.value
            /\ degraded' = out.degraded
            /\ pc' = retryDecision(out.rejects, retries)
    /\ UNCHANGED << storageWritable, call, retries, delay, attempts, requests, waits,
                    cacheReads, entry, calls, validationCache, modalVars >>
    /\ UNCHANGED otherVars

(***************************************************************************)
(* batchEnrichTransactions(transactions, examples)                         *)
(***************************************************************************)

BatchCall ==
    \E items \in ItemLists, ex \in ExampleLists :
        /\ Begin
        /\ UNCHANGED << validationCache, modalVars >>
        /\ call' = [op |-> "batch", transaction |-> EmptyMap, examples |-> ex,
                    items |-> items, identifiedMerchant |-> JNull, cacheKey |-> "",
                    layer |-> IF Len(items) = 0 THEN "none" ELSE "remote"]
        /\ cacheReads' = 0
        /\ result' = IF Len(items) = 0 THEN Arr(<< >>) ELSE JUndef
        /\ pc' = IF Len(items) = 0 THEN "returned" ELSE "awaiting"
        /\ attempts' = IF Len(items) = 0 THEN 0 ELSE 1
        /\ requests' = IF Len(items) = 0 THEN 0 ELSE 1
        /\ UNCHANGED memoryCache
        /\ UNCHANGED otherVars

BatchRespond ==
    /\ pc = "awaiting"
    /\ call.op = "batch"
    /\ \E response \in BatchResponses :
        LET out == batchTask(call.items, response)
            after == applyWrites(memoryCache, localStorage, storageWritable, out.writes)
        IN  /\ lastResponse' = response
            /\ memoryCache' = after.mc
            /\ localStorage' = after.ls
            /\ cacheWrites' = cacheWrites + Len(out.writes)
            /\ result' = out.value
            /\ degraded' = out.degraded
            /\ pc' = retryDecision(out.rejects, retries)
    /\ UNCHANGED << storageWritable, call, retries, delay, attempts, requests, waits,
                    cacheReads, entry, calls, validationCache, modalVars >>
    /\ UNCHANGED otherVars

(***************************************************************************)
(* parseTransactionsFromFile(file) and parseBasicInfoFromText(text)        *)
(***************************************************************************)

\* parseBasicInfoFromText: the task sends its request at once
ParseTextCall ==
    /\ Begin
    /\ UNCHANGED << validationCache, modalVars >>
    /\ call' = [NoCall EXCEPT !.op = "parseText", !.layer = "remote"]
    /\ cacheReads' = 0
    /\ result' = JUndef
    /\ pc' = "awaiting"
    /\ attempts' = 1
    /\ requests' = 1
    /\ UNCHANGED memoryCache
    /\ UNCHANGED otherVars

\* parseTransactionsFromFile: the task first awaits file.text() or the FileReader
ParseFileCall ==
    /\ Begin
    /\ UNCHANGED << validationCache, modalVars >>
    /\ call' = [NoCall EXCEPT !.op = "parseFile", !.layer = "remote"]
    /\ cacheReads' = 0
    /\ result' = JUndef
    /\ pc' = "reading"
    /\ attempts' = 1
    /\ requests' = 0
    /\ UNCHANGED memoryCache
    /\ UNCHANGED otherVars

\* the file has been read and the request goes out, or reading failed: the task's
\* catch block throws and retryWithBackoff decides
FileRead ==
    /\ pc = "reading"
    /\ \E readable \in BOOLEAN :
        /\ pc' = IF readable THEN "awaiting" ELSE retryDecision(TRUE, retries)
        /\ requests' = IF readable THEN requests + 1 ELSE requests
    /\ UNCHANGED << memoryCache, localStorage, storageWritable, call, retries, delay,
                    result, degraded, lastResponse, attempts, waits, cacheReads,
                    cacheWrites, entry, calls, validationCache, modalVars >>
    /\ UNCHANGED otherVars

ParseRespond ==
    /\ pc = "awaiting"
    /\ call.op \in {"parseText", "parseFile"}
    /\ \E response \in ParseResponses :
        LET out == parseTask(response)
        IN  /\ lastResponse' = response
            /\ result' = out.value
            /\ pc' = retryDecision(out.rejects, retries)
    /\ UNCHANGED << memoryCache, localStorage, storageWritable, call, retries, delay,
                    degraded, attempts, requests, waits, cacheReads, cacheWrites,
                    entry, calls, validationCache, modalVars >>
    /\ UNCHANGED otherVars

(***************************************************************************)
(* retryWithBackoff: the timer fires and the task is invoked again         *)
(***************************************************************************)

BackoffElapsed ==
    /\ pc = "backoff"
    /\ waits' = Append(waits, delay)
    /\ retries' = nextRetries(retries)
    /\ delay' = nextDelay(delay)
    /\ attempts' = attempts + 1
    /\ pc' = IF call.op = "parseFile" THEN "reading" ELSE "awaiting"
    /\ requests' = IF call.op = "parseFile" THEN requests ELSE requests + 1
    /\ UNCHANGED << memoryCache, localStorage, storageWritable, call, result, degraded,
                    lastResponse, cacheReads, cacheWrites, entry, calls,
                    validationCache, modalVars >>
    /\ UNCHANGED otherVars

Next ==
    \/ EnrichCall
    \/ EnrichRespond
    \/ BatchCall
    \/ BatchRespond
    \/ ParseTextCall
    \/ ParseFileCall
    \/ FileRead
    \/ ParseRespond
    \/ BackoffElapsed

Spec == Init /\ [][Next]_vars

TestCaseNext ==
    \/ EnrichTestCase
    \/ EnrichRespond

\* enrichTransaction over the lines of the test script
TestCaseSpec == Init /\ [][TestCaseNext]_vars

(***************************************************************************)
(* validateCategoryMismatch(description, newCategory)                      *)
(***************************************************************************)

Bool(b) == [t |-> "boolean", v |-> b]

\* retryWithBackoff(..., 1): "Only retry once for validation"
ValidateRetries == 1

\* `${description.trim().toLowerCase()}|${newCategory.toLowerCase()}`
validateCacheKey(description, newCategory) ==
    toLowerCase(trim(description)) \o "|" \o toLowerCase(newCategory)

\* validateCategoryMismatch before its remote call: a verdict already in
\* validationCache is returned, and "Other" and "General" are accepted unasked
validateLocal(description, newCategory, vc) ==
    LET cacheKey == validateCacheKey(description, newCategory)
    IN  IF cacheKey \in DOMAIN vc THEN [returns |-> TRUE, value |-> vc[cacheKey]]
        ELSE IF newCategory = "Other" \/ newCategory = "General"
        THEN [returns |-> TRUE, value |-> Bool(TRUE)]
        ELSE [returns |-> FALSE, value |-> JUndef]

\* a catch block that rethrows: the task rejects and retryWithBackoff, which has
\* one retry, asks again (C11 tells it from the code's)
validateRethrown ==
    [rejects |-> TRUE, degraded |-> FALSE, value |-> JUndef, writes |-> << >>]

\* how the validation task settles when its try block throws: the catch block
\* returns true
validateCaught ==
    [rejects |-> FALSE, degraded |-> TRUE, value |-> Bool(TRUE), writes |-> << >>]

\* the task validateCategoryMismatch hands to retryWithBackoff, from the arrival of
\* the response on; reading is_logical of null throws
validateTask(cacheKey, response) ==
    LET parsed == cleanJsonInfo(response.text)
        answer == parsed.value
        typeError == answer.t \in {"null", "undefined"}
        is_logical == IF answer.t = "object" THEN Get(answer.v, "is_logical") ELSE JUndef
    IN  IF response.kind = "error" \/ parsed.threw \/ typeError THEN validateCaught
        ELSE [rejects |-> FALSE, degraded |-> FALSE, value |-> is_logical,
              writes |-> << [key |-> cacheKey, data |-> is_logical] >>]

\* the same statement line with and without the blanks and capitals the key drops
ValidateDescriptions ==
    { "Lipa na M-PESA to Mama Mboga", "  lipa na m-pesa to mama mboga " }

ValidateCategories == { "Other", "General", "Groceries", "Transport" }

\* what the remote client may answer to a validation: a rejection, a text that is
\* no JSON, null, an object without is_logical, or a verdict
ValidateResponses ==
    { ErrorResponse, UnparsableResponse,
      TextResponse(JNull, << >>),
      TextResponse(Obj(EmptyMap), << >>),
      TextResponse(Obj([is_logical |-> Bool(TRUE)]), << >>),
      TextResponse(Obj([is_logical |-> Bool(FALSE)]), << >>) }

\* the call up to its first await
ValidateCall ==
    \E description \in ValidateDescriptions, newCategory \in ValidateCategories :
        LET local == validateLocal(description, newCategory, validationCache)
        IN  /\ Settled
            /\ calls < MaxCalls
            /\ calls' = calls + 1
            /\ entry' = [memory |-> memoryCache,
                         cache |-> CacheView(memoryCache, localStorage),
                         storage |-> localStorage]
            /\ retries' = ValidateRetries
            /\ delay' = DefaultDelay
            /\ waits' = << >>
            /\ lastResponse' = NoResponse
            /\ degraded' = FALSE
            /\ cacheReads' = 0
            /\ cacheWrites' = 0
            /\ call' = [NoCall EXCEPT !.op = "validate",
                                      !.transaction = [description |-> Str(description),
                                                       category |-> Str(newCategory)],
                                      !.cacheKey = validateCacheKey(description, newCategory),
                                      !.layer = IF local.returns THEN "none" ELSE "remote"]
            /\ result' = local.value
            /\ pc' = IF local.returns THEN "returned" ELSE "awaiting"
            /\ attempts' = IF local.returns THEN 0 ELSE 1
            /\ requests' = IF local.returns THEN 0 ELSE 1
            /\ UNCHANGED << memoryCache, localStorage, storageWritable, validationCache,
                            modalVars >>
            /\ UNCHANGED otherVars

\* the response arrives: the rest of the task runs, then retryWithBackoff decides
ValidateRespond ==
    /\ pc = "awaiting"
    /\ call.op = "validate"
    /\ \E response \in ValidateResponses :
        LET out == validateTask(call.cacheKey, response)
        IN  /\ lastResponse' = response
            /\ validationCache' =
                   IF out.writes = << >> THEN validationCache
                   ELSE MapSet(validationCache, out.writes[1].key, out.writes[1].data)
            /\ result' = out.value
            /\ degraded' = out.degraded
            /\ pc' = retryDecision(out.rejects, retries)
    /\ UNCHANGED << memoryCache, localStorage, storageWritable, call, retries, delay,
                    attempts, requests, waits, cacheReads, cacheWrites, entry, calls,
                    modalVars >>
    /\ UNCHANGED otherVars

\* the remote operations that leave the enrichment cache alone: validation, and the
\* parsing of a text, whose failures retryWithBackoff does retry
ValidateNext ==
    \/ ValidateCall
    \/ ValidateRespond
    \/ ParseTextCall
    \/ ParseRespond
    \/ BackoffElapsed

ValidateSpec == Init /\ [][ValidateNext]_vars

(***************************************************************************)
(* ImportTransactionsModal: processing a statement and the review step     *)
(***************************************************************************)

\* a row parseCSVLocally pushes: the merchant is the description, no category
LocalRow(d) == [description |-> Str(d), merchant |-> Str(d), category |-> JUndef]

\* the statements a local CSV parse may yield (never an empty list: that is null)
Statements ==
    { << LocalRow("Lipa na M-PESA to Naivas Westlands Transaction ID: QWE") >>,
      << LocalRow("ATM cash 500") >>,
      << LocalRow("Lipa na M-PESA to Mama Mboga"), LocalRow("ATM cash 500") >>,
      << LocalRow("Lipa na M-PESA to Naivas Westlands Transaction ID: QWE"),
         LocalRow("Lipa na M-PESA to Mama Mboga"),
         LocalRow("ATM cash 500") >> }

\* sanitizeTransaction, for the fields enrichment touches
sanitizeTransaction(tx) ==
    [description |-> OrElse(Get(tx, "description"), Str("Unknown Transaction")),
     merchant |-> Get(tx, "merchant"),
     category |-> Get(tx, "category")]

\* the branches of the body of updatedTransactions.forEach in enrichAll, for the
\* row tx at index: heuristic is extractHeuristicData(tx.description),
\* mappedCategory the rule table's answer for its merchant and cachedData the
\* cache entry under its key.  The row the rule table or the cache resolves is
\* rewritten and counted, any other row yields an item to enrich.
prePassBranch(tx, index, heuristic, mappedCategory, cachedData) ==
    IF Truthy(heuristic.merchant) /\ Truthy(mappedCategory)
    THEN [resolved |-> TRUE, reads |-> 0, item |-> JUndef,
          row |-> Spread(tx, [merchant |-> heuristic.merchant,
                              category |-> mappedCategory])]
    ELSE IF Truthy(cachedData)
    THEN [resolved |-> TRUE, reads |-> 1, item |-> JUndef,
          \* { ...tx, merchant: identifiedMerchant || cachedData.merchant, ...cachedData }
          row |-> Spread(Spread(tx, [merchant |->
                                        cacheHitMerchant(heuristic.merchant, cachedData.v)]),
                         cachedData.v)]
    ELSE [resolved |-> FALSE, reads |-> 1, row |-> tx,
          item |-> [index |-> index,
                    description |-> tx.description.v,
                    cacheKey |-> heuristic.cacheKey,
                    identifiedMerchant |-> OrElse(heuristic.merchant, JUndef)]]

\* the lookups of the body, given the heuristic data of the row
prePassLookup(tx, index, cache, heuristic) ==
    prePassBranch(tx, index, heuristic, mappedCategoryOf(heuristic.merchant),
                  MapGet(cache, heuristic.cacheKey))

\* the body of updatedTransactions.forEach for the row tx at index, given the
\* entries a cache read sees; the rows are statement lines
prePassRow(tx, index, cache) ==
    prePassLookup(tx, index, cache, heuristicData[tx.description.v])

\* what the loop leaves, given the outcome of its body for every row: the rows
\* after it, the items pushed to transactionsToEnrich in row order, the rows
\* counted as processed on the device, the cache reads made and the cache state
\* they leave.  Every read sees the same entries: the first one hydrates the map
\* and none writes it.
prePassTotals(outcome, pending, reads, mc, cache) ==
    [rows |-> [i \in 1..Len(outcome) |-> outcome[i].row],
     items |-> [k \in 1..Len(pending) |-> outcome[pending[k]].item],
     processedOnDevice |-> Len(outcome) - Len(pending),
     reads |-> reads,
     mc |-> IF reads > 0 THEN cache ELSE mc]

prePassOutcome(outcome, mc, cache) ==
    prePassTotals(outcome,
                  SelectSeq([i \in 1..Len(outcome) |-> i],
                            LAMBDA i : ~outcome[i].resolved),
                  Cardinality({i \in 1..Len(outcome) : outcome[i].reads = 1}),
                  mc, cache)

\* updatedTransactions.forEach of enrichAll (lines 173-190) over the entries cache
\* that getCache yields
prePass(rows, mc, cache) ==
    prePassOutcome([i \in 1..Len(rows) |-> prePassRow(rows[i], i - 1, cache.map)],
                   mc, cache)

\* batchResults.forEach of enrichAll: a result is merged into the row at its index
\* when there is such a row
RECURSIVE scatter(_, _)
scatter(rows, results) ==
    IF results = << >> THEN rows
    ELSE LET batchResult == Head(results)
             index == Get(batchResult.v, "index")
             known == index.t = "number" /\ index.v + 1 \in 1..Len(rows)
         IN  scatter(IF known
                     THEN [rows EXCEPT ![index.v + 1] = Spread(@, batchResult.v)]
                     ELSE rows,
                     Tail(results))

\* const isEnriching = enrichmentStatus.processed < enrichmentStatus.total;
\* the Confirm and Add button is disabled while it holds
isEnriching == enrichmentStatus.processed < enrichmentStatus.total

\* the Next button of the account step
SelectAccount ==
    /\ step = "selectAccount"
    /\ step' = "upload"
    /\ UNCHANGED << memoryCache, localStorage, storageWritable, pc, call, retries, delay,
                    result, degraded, lastResponse, attempts, requests, waits, cacheReads,
                    cacheWrites, entry, calls, validationCache, parsedTransactions,
                    enrichmentStatus, error, enrichAll >>
    /\ UNCHANGED otherVars

\* handleProcessFile on a CSV file that parseCSVLocally understands.  An import is
\* begun only while the bound on calls leaves room for the calls it makes.
ProcessCsvLocally ==
    /\ step = "upload"
    /\ Settled
    /\ calls < MaxCalls
    /\ \E localResult \in Statements : parsedTransactions' = localResult
    /\ step' = "review"
    /\ error' = JNull
    /\ enrichAll' = "idle"
    /\ UNCHANGED << memoryCache, localStorage, storageWritable, pc, call, retries, delay,
                    result, degraded, lastResponse, attempts, requests, waits, cacheReads,
                    cacheWrites, entry, calls, validationCache, enrichmentStatus >>
    /\ UNCHANGED otherVars

\* handleProcessFile on any other file: parseTransactionsFromFile is called
ProcessWithAI ==
    /\ step = "upload"
    /\ calls + 1 < MaxCalls
    /\ Begin
    /\ step' = "loading"
    /\ error' = JNull
    /\ call' = [NoCall EXCEPT !.op = "parseFile", !.layer = "remote"]
    /\ cacheReads' = 0
    /\ result' = JUndef
    /\ pc' = "reading"
    /\ attempts' = 1
    /\ requests' = 0
    /\ UNCHANGED << memoryCache, validationCache, parsedTransactions, enrichmentStatus,
                    enrichAll >>
    /\ UNCHANGED otherVars

\* handleProcessFile after its await: the parsed rows go to review, a failure goes
\* back to the upload step with a message
ProcessFileSettled ==
    /\ step = "loading"
    /\ call.op = "parseFile"
    /\ pc \in {"returned", "threw"}
    /\ IF pc = "returned" /\ result.t = "array"
       THEN /\ parsedTransactions' =
                   [i \in 1..Len(result.v) |-> sanitizeTransaction(result.v[i].v)]
            /\ step' = "review"
            /\ enrichAll' = "idle"
            /\ error' = error
       ELSE /\ error' = Str("AI failed to process the statement.")
            /\ step' = "upload"
            /\ UNCHANGED << parsedTransactions, enrichAll >>
    /\ UNCHANGED << memoryCache, localStorage, storageWritable, pc, call, retries, delay,
                    result, degraded, lastResponse, attempts, requests, waits, cacheReads,
                    cacheWrites, entry, calls, validationCache, enrichmentStatus >>
    /\ UNCHANGED otherVars

\* the effect of the review step, up to the await of batchEnrichTransactions
EnrichAllEffect ==
    /\ step = "review"
    /\ Len(parsedTransactions) > 0
    /\ enrichAll = "idle"
    /\ \E cache \in {getCache(memoryCache, localStorage)} :
       \E pre \in {prePass(parsedTransactions, memoryCache, cache)} :
           /\ parsedTransactions' = pre.rows
           /\ enrichmentStatus' = [processed |-> pre.processedOnDevice,
                                   total |-> Len(parsedTransactions)]
           /\ memoryCache' = pre.mc
           /\ IF pre.items # << >>
              THEN /\ Begin
                   /\ \E ex \in ExampleLists :
                        call' = [op |-> "batch", transaction |-> EmptyMap, examples |-> ex,
                                 items |-> pre.items, identifiedMerchant |-> JNull,
                                 cacheKey |-> "", layer |-> "remote"]
                   /\ cacheReads' = pre.reads
                   /\ result' = JUndef
                   /\ pc' = "awaiting"
                   /\ attempts' = 1
                   /\ requests' = 1
                   /\ enrichAll' = "awaiting"
              ELSE /\ enrichAll' = "done"
                   /\ UNCHANGED << localStorage, storageWritable, pc, call, retries, delay,
                                   result, degraded, lastResponse, attempts, requests,
                                   waits, cacheReads, cacheWrites, entry, calls >>
    /\ UNCHANGED << validationCache, step, error >>
    /\ UNCHANGED otherVars

\* enrichAll after the await: the results are scattered into the rows and counted;
\* a rejected batch only sets the error message
EnrichAllResume ==
    /\ enrichAll = "awaiting"
    /\ call.op = "batch"
    /\ pc \in {"returned", "threw"}
    /\ IF pc = "returned"
       THEN /\ parsedTransactions' = scatter(parsedTransactions, result.v)
            /\ enrichmentStatus' =
                   [enrichmentStatus EXCEPT !.processed = @ + Len(result.v)]
            /\ error' = error
       ELSE /\ error' = Str("AI enrichment partially failed. Please review.")
            /\ UNCHANGED << parsedTransactions, enrichmentStatus >>
    /\ enrichAll' = "done"
    /\ UNCHANGED << memoryCache, localStorage, storageWritable, pc, call, retries, delay,
                    result, degraded, lastResponse, attempts, requests, waits, cacheReads,
                    cacheWrites, entry, calls, validationCache, step >>
    /\ UNCHANGED otherVars

\* handleConfirmImport, behind the Confirm and Add button: the rows are handed to
\* onImport and handleClose resets the dialog
ConfirmImport ==
    /\ step = "review"
    /\ ~isEnriching
    /\ step' = "selectAccount"
    /\ parsedTransactions' = << >>
    /\ error' = JNull
    /\ enrichmentStatus' = [processed |-> 0, total |-> 0]
    /\ enrichAll' = "idle"
    /\ UNCHANGED << memoryCache, localStorage, storageWritable, pc, call, retries, delay,
                    result, degraded, lastResponse, attempts, requests, waits, cacheReads,
                    cacheWrites, entry, calls, validationCache >>
    /\ UNCHANGED otherVars

\* the Back button of the review step, which is never disabled; leaving while the
\* batch is still awaited is left out
BackToUpload ==
    /\ step = "review"
    /\ enrichAll # "awaiting"
    /\ step' = "upload"
    /\ UNCHANGED << memoryCache, localStorage, storageWritable, pc, call, retries, delay,
                    result, degraded, lastResponse, attempts, requests, waits, cacheReads,
                    cacheWrites, entry, calls, validationCache, parsedTransactions,
                    enrichmentStatus, error, enrichAll >>
    /\ UNCHANGED otherVars

\* what runs without the user: timers, responses, continuations and the effect
ImportProgress ==
    \/ FileRead
    \/ ParseRespond
    \/ BackoffElapsed
    \/ ProcessFileSettled
    \/ EnrichAllEffect
    \/ BatchRespond
    \/ EnrichAllResume

ImportNext ==
    \/ SelectAccount
    \/ ProcessCsvLocally
    \/ ProcessWithAI
    \/ BackToUpload
    \/ ConfirmImport
    \/ ImportProgress

\* a request sent is answered and the continuation of enrichAll then runs; the
\* user need not act
ImportSpec ==
    /\ Init
    /\ [][ImportNext]_vars
    /\ WF_vars(BatchRespond)
    /\ WF_vars(EnrichAllResume)

(***************************************************************************)
(* The Pattern Extractor and the Category Rule Table called on their own   *)
(***************************************************************************)

\* descriptions are put together from the opening of a statement line, a name and
\* an ending, so that a line can match no rule, one rule or several rules
Heads ==
    { "", "Lipa na M-PESA to ", "lipa na m-pesa TO ", "Pay Bill to ", "M-PESA Paybill, ",
      "Card Purchase at ", "Withdrawal from Agent ", "DEBIT CARD TXN AT ",
      "IBKG MPESA PAY TO 2547-", "KE-013-25-14-69 " }

Names ==
    { "Naivas", "KCB  KPLC ", "Pay Bill to Zuku", "M-PESA Paybill, Java," }

Tails ==
    { "", " Transaction ID: Q1", " Acc No. 1", "  12-11-2025", "-MOBILE MONEY TRANSFER",
      " 0002" }

HeuristicDescriptions ==
    { head \o name \o tail : head \in Heads, name \in Names, tail \in Tails }
        \cup { "  ATM cash 500 ", "Lipa na M-PESA to   Transaction ID: X",
               "Withdrawal from Agent   at Westlands",
               "KE-013-251113-140132692-693070-871 FRANCIS HAIR SALON| 0002|PESA|0057",
               "IBKG MPESA PAY TO 254117449222-MOBILE MONEY KE-IBNK-HAOSP9" }

\* the two copies of the service
Versions == {1, 2}

\* merchant names are put together from two words, so that a name can hold the
\* keywords of no rule, of one rule or of two rules in either order
Words == { "", "Mama Mboga", "KCB", "kplc", "NAIVAS", "Java House", "Uber", "Prepaid" }

MerchantNames == { first \o " " \o second : first \in Words, second \in Words }

\* extractHeuristicData(description) of either copy
ExtractCall ==
    /\ pc = "idle"
    /\ \E version \in Versions, description \in HeuristicDescriptions :
         /\ call' = [op |-> "extractHeuristicData", version |-> version,
                     description |-> description]
         /\ result' = IF version = 1 THEN extractHeuristicData(description)
                                     ELSE extractHeuristicData2(description)
    /\ pc' = "returned"
    /\ UNCHANGED << memoryCache, localStorage, storageWritable, retries, delay, degraded,
                    lastResponse, attempts, requests, waits, cacheReads, cacheWrites,
                    entry, calls, validationCache, modalVars >>
    /\ UNCHANGED otherVars

\* getCategoryForMerchant(merchantName)
CategoryCall ==
    /\ pc = "idle"
    /\ \E merchantName \in MerchantNames :
         /\ call' = [op |-> "getCategoryForMerchant", merchantName |-> merchantName]
         /\ result' = getCategoryForMerchant(merchantName)
    /\ pc' = "returned"
    /\ UNCHANGED << memoryCache, localStorage, storageWritable, retries, delay, degraded,
                    lastResponse, attempts, requests, waits, cacheReads, cacheWrites,
                    entry, calls, validationCache, modalVars >>
    /\ UNCHANGED otherVars

\* the caller has the value and may call again
HeuristicReturn ==
    /\ pc = "returned"
    /\ call.op \in {"extractHeuristicData", "getCategoryForMerchant"}
    /\ pc' = "idle"
    /\ call' = NoCall
    /\ result' = JUndef
    /\ UNCHANGED << memoryCache, localStorage, storageWritable, retries, delay, degraded,
                    lastResponse, attempts, requests, waits, cacheReads, cacheWrites,
                    entry, calls, validationCache, modalVars >>
    /\ UNCHANGED otherVars

HeuristicNext ==
    \/ ExtractCall
    \/ CategoryCall
    \/ HeuristicReturn

\* neither function reads the cache or storage: one start state stands for all
HeuristicInit == Init /\ localStorage.kind = "absent" /\ storageWritable

HeuristicSpec == HeuristicInit /\ [][HeuristicNext]_vars

(***************************************************************************)
(* The Enrichment Cache called on its own, over the life of several        *)
(* processes that share one durable storage                                *)
(***************************************************************************)

CacheKeys == {"Mama Mboga", "Naivas"}

\* EnrichedData values; enrichedInfo is optional, and a property that is undefined
\* does not survive JSON
CacheData ==
    { [merchant |-> Str("Mama Mboga Shop"), category |-> Str("Food")],
      [merchant |-> Str("Naivas"), category |-> Str("Groceries"), enrichedInfo |-> JUndef],
      [merchant |-> Str("Mama Mboga"), category |-> Str("Groceries"),
       enrichedInfo |-> KnownInfo] }

\* what a call finds: the module's map, what a read would see, the blob, and the
\* call made just before it (none when the process or storage changed since)
cacheEntry == [memory |-> memoryCache, cache |-> CacheView(memoryCache, localStorage),
               storage |-> localStorage, previous |-> call]

\* getCachedEnrichment(key)
CacheGet ==
    /\ Settled
    /\ \E key \in CacheKeys :
         \E read \in {getCachedEnrichment(memoryCache, localStorage, key)} :
             /\ call' = [op |-> "get", key |-> key]
             /\ result' = read.value
             /\ memoryCache' = read.mc
    /\ entry' = cacheEntry
    /\ pc' = "returned"
    /\ UNCHANGED << localStorage, storageWritable, retries, delay, degraded, lastResponse,
                    attempts, requests, waits, cacheReads, cacheWrites, calls,
                    validationCache, modalVars >>
    /\ UNCHANGED otherVars

\* setCachedEnrichment(key, data)
CacheSet ==
    /\ Settled
    /\ \E key \in CacheKeys, data \in CacheData :
         \E written \in {setCachedEnrichment(memoryCache, localStorage, storageWritable,
                                              key, data)} :
             /\ call' = [op |-> "set", key |-> key, data |-> data]
             /\ memoryCache' = written.mc
             /\ localStorage' = written.ls
    /\ result' = JUndef
    /\ entry' = cacheEntry
    /\ pc' = "returned"
    /\ UNCHANGED << storageWritable, retries, delay, degraded, lastResponse, attempts,
                    requests, waits, cacheReads, cacheWrites, calls, validationCache,
                    modalVars >>
    /\ UNCHANGED otherVars

\* the page is loaded again: the module starts with memoryCache = null, storage stays
Restart ==
    /\ Settled
    /\ memoryCache' = NullCache
    /\ pc' = "idle"
    /\ call' = NoCall
    /\ result' = JUndef
    /\ entry' = [memory |-> NullCache, cache |-> EmptyMap, storage |-> localStorage,
                 previous |-> NoCall]
    /\ UNCHANGED << localStorage, storageWritable, retries, delay, degraded, lastResponse,
                    attempts, requests, waits, cacheReads, cacheWrites, calls,
                    validationCache, modalVars >>
    /\ UNCHANGED otherVars

\* another writer (another tab, the user clearing site data) replaces or removes
\* the blob while no call of this process is under way
StorageChanged ==
    /\ Settled
    /\ \E blob \in InitialBlobs : blob # localStorage /\ localStorage' = blob
    /\ pc' = "idle"
    /\ call' = NoCall
    /\ result' = JUndef
    /\ UNCHANGED << memoryCache, storageWritable, retries, delay, degraded, lastResponse,
                    attempts, requests, waits, cacheReads, cacheWrites, entry, calls,
                    validationCache, modalVars >>
    /\ UNCHANGED otherVars

\* storage starts or stops accepting setItem (quota reached or freed)
StorageToggled ==
    /\ Settled
    /\ storageWritable' = ~storageWritable
    /\ pc' = "idle"
    /\ call' = NoCall
    /\ result' = JUndef
    /\ UNCHANGED << memoryCache, localStorage, retries, delay, degraded, lastResponse,
                    attempts, requests, waits, cacheReads, cacheWrites, entry, calls,
                    validationCache, modalVars >>
    /\ UNCHANGED otherVars

CacheNext ==
    \/ CacheGet
    \/ CacheSet
    \/ Restart
    \/ StorageChanged
    \/ StorageToggled

CacheSpec == Init /\ [][CacheNext]_vars

(***************************************************************************)
(* BudgetModal: the drafts computed when the planner opens, their edits    *)
(* and the impact analysis; FinancialContext.addBudget                     *)
(***************************************************************************)

\* amount: number. Amounts are counted in halves of a shilling, so that an amount
\* may be whole or not; every number of a draft is in this unit
Unit == 2

Shillings(n) == n * Unit

DISCRETIONARY_CATEGORIES ==
    { "Eating Out", "Entertainment", "Shopping", "Personal Care", "Gifts", "Travel",
      "Subscriptions", "Alcohol & Bars", "Betting", "Ride Sharing/Food Delivery" }

SAVINGS_CATEGORIES ==
    { "Savings", "Investments", "Emergency Fund", "Sacco", "Money Market Fund",
      "Pension", "Financial Services/Investments" }

\* Math.round of the ratio p / q (q > 0): the nearest whole number, a half going up
round(p, q) == (2 * p + q) \div (2 * q)

RECURSIVE sumOf(_)
\* values.reduce((a, b) => a + b, 0)
sumOf(values) == IF values = << >> THEN 0 ELSE Head(values) + sumOf(Tail(values))

\* `${d.getFullYear()}-${String(d.getMonth() + 1).padStart(2, '0')}`: keys of
\* four-digit years sort as strings the way these numbers sort
monthKey(date) == date.year * 100 + date.month

\* every transaction adds its key, whatever its type
allMonthsSet(txs) == { monthKey(txs[i].date) : i \in DOMAIN txs }

RECURSIVE sortReverse(_)
\* Array.from(keys).sort().reverse()
sortReverse(keys) ==
    IF keys = {} THEN << >>
    ELSE LET last == CHOOSE k \in keys : \A other \in keys : other <= k
         IN  << last >> \o sortReverse(keys \ {last})

\* .slice(0, 12)
WindowMonths == 12

\* list.slice(0, end)
slice(list, end) == SubSeq(list, 1, IF Len(list) < end THEN Len(list) ELSE end)

sortedMonthsOf(txs) == slice(sortReverse(allMonthsSet(txs)), WindowMonths)

isIncome(t) == t.type = "income" /\ ~t.isTransfer

isExpense(t) == t.type = "expense" /\ ~t.isTransfer

\* incomeByMonth[key] || 0
incomeIn(txs, key) ==
    LET Counted(t) == isIncome(t) /\ monthKey(t.date) = key
        counted == SelectSeq(txs, Counted)
    IN  sumOf([i \in DOMAIN counted |-> counted[i].amount])

\* expenseByMonthCategory[cat][key] || 0
expenseIn(txs, cat, key) ==
    LET Counted(t) == isExpense(t) /\ t.category = cat /\ monthKey(t.date) = key
        counted == SelectSeq(txs, Counted)
    IN  sumOf([i \in DOMAIN counted |-> counted[i].amount])

RECURSIVE expenseCategories(_, _)
\* Object.keys(expenseByMonthCategory): the categories in the order they first occur
expenseCategories(txs, seen) ==
    IF txs = << >> THEN << >>
    ELSE LET t == Head(txs)
         IN  IF isExpense(t) /\ t.category \notin seen
             THEN << t.category >> \o expenseCategories(Tail(txs), seen \cup {t.category})
             ELSE expenseCategories(Tail(txs), seen)

\* calculatedIncomeAvg, as the ratio num / den: the mean over the months whose
\* income is above zero
calculatedIncomeAvg(txs) ==
    LET incomeMonths == { monthKey(txs[i].date) : i \in { j \in DOMAIN txs : isIncome(txs[j]) } }
        nonZero == { k \in incomeMonths : incomeIn(txs, k) > 0 }
        incomes == [k \in nonZero |-> incomeIn(txs, k)]
        RECURSIVE total(_)
        total(keys) == IF keys = {} THEN 0
                       ELSE LET k == CHOOSE x \in keys : TRUE
                            IN  incomes[k] + total(keys \ {k})
    IN  IF nonZero = {} THEN [num |-> 0, den |-> 1]
        ELSE [num |-> total(nonZero), den |-> Cardinality(nonZero)]

\* a find that never finds
findNone(list, cat) == JUndef

RECURSIVE findBudget(_, _)
\* existingBudgets.find(b => b.category === cat)
findBudget(list, cat) ==
    IF list = << >> THEN JUndef
    ELSE IF Head(list).category = cat THEN Head(list)
         ELSE findBudget(Tail(list), cat)

\* Math.max(...values)
maxOf(values) == CHOOSE v \in { values[i] : i \in DOMAIN values } :
                     \A i \in DOMAIN values : values[i] <= v

\* the lowest value, months without spending included
lowestOf(values) == CHOOSE v \in { values[i] : i \in DOMAIN values } :
                        \A i \in DOMAIN values : v <= values[i]

\* Math.min(...values.filter(v => v > 0)), Infinity read as 0
minOf(values) ==
    LET positive == { values[i] : i \in { j \in DOMAIN values : values[j] > 0 } }
    IN  IF positive = {} THEN 0
        ELSE CHOOSE v \in positive : \A other \in positive : v <= other

\* stdDev / mean for mean > 0, else 0. The value is kept as its square, the ratio
\* num / den: with n values of sum T, variance / mean^2 = SUM (n v - T)^2 / (n T^2)
volatilityOf(values) ==
    LET n == Len(values)
        total == sumOf(values)
    IN  IF total > 0
        THEN [num |-> sumOf([i \in DOMAIN values |->
                                (n * values[i] - total) * (n * values[i] - total)]),
              den |-> n * total * total]
        ELSE [num |-> 0, den |-> 1]

\* volatility < 0.2
belowFifth(volatility) == 25 * volatility.num < volatility.den

\* the label of a category present in activeMonths of the months of the window
frequencyOf(activeMonths, months) ==
    IF 5 * activeMonths < 2 * months THEN "Rare"
    ELSE IF 5 * activeMonths < 4 * months THEN "Occasional"
    ELSE "Monthly"

\* a suggestion that cuts a fifth under the name of maintaining
suggestionOfCut(total, months, isSavings, isDiscretionary, profile) ==
    [limit |-> Shillings(round(4 * total, 5 * months * Unit)), strategy |-> "maintain"]

\* the goal-driven suggestion for a category without a budget: the average is
\* total / (months * Unit) shillings, and the products are taken exactly
suggestion(total, months, isSavings, isDiscretionary, profile) ==
    LET goal == IF profile = JNull THEN "" ELSE profile.primaryGoal
        maintain == [limit |-> Shillings(round(total, months * Unit)),
                     strategy |-> "maintain"]
    IN  IF profile = JNull THEN maintain
        ELSE IF isSavings
        THEN IF goal \in {"save_emergency", "invest", "buy_asset", "travel"}
             THEN [limit |-> Shillings(round(11 * total, 10 * months * Unit)),
                   strategy |-> "increase"]
             ELSE maintain
        ELSE IF isDiscretionary
        THEN IF goal \in {"save_emergency", "pay_debt", "control_spend"}
             THEN [limit |-> Shillings(round(4 * total, 5 * months * Unit)),
                   strategy |-> "aggressive"]
             ELSE IF goal \in {"invest", "buy_asset"}
             THEN [limit |-> Shillings(round(9 * total, 10 * months * Unit)),
                   strategy |-> "moderate"]
             ELSE maintain
        ELSE maintain

\* the draft built for one category of expenseByMonthCategory
draftOf(cat, txs, sortedMonths, existingBudgets, profile) ==
    LET monthlyValues == [i \in DOMAIN sortedMonths |-> expenseIn(txs, cat, sortedMonths[i])]
        activeMonths == Cardinality({ i \in DOMAIN monthlyValues : monthlyValues[i] > 0 })
        total == sumOf(monthlyValues)
        months == IF Len(sortedMonths) = 0 THEN 1 ELSE Len(sortedMonths)
        existing == findBudget(existingBudgets, cat)
        isDiscretionary == cat \in DISCRETIONARY_CATEGORIES
        isSavings == cat \in SAVINGS_CATEGORIES
        suggested == suggestion(total, months, isSavings, isDiscretionary, profile)
    IN  [category |-> cat,
         average |-> Shillings(round(total, months * Unit)),
         max |-> maxOf(monthlyValues),
         min |-> minOf(monthlyValues),
         history |-> monthlyValues,
         frequency |-> frequencyOf(activeMonths, months),
         volatility |-> volatilityOf(monthlyValues),
         limit |-> IF existing # JUndef THEN existing.limit ELSE suggested.limit,
         strategy |-> IF existing # JUndef THEN existing.strategy ELSE suggested.strategy,
         isDiscretionary |-> isDiscretionary,
         isSavings |-> isSavings,
         isModified |-> FALSE]

RECURSIVE sortByAverage(_, _)
\* .sort((a, b) => b.average - a.average): stable, the larger average first
sortByAverage(rest, sorted) ==
    IF rest = << >> THEN sorted
    ELSE LET d == Head(rest)
             ahead == Cardinality({ i \in DOMAIN sorted : sorted[i].average >= d.average })
         IN  sortByAverage(Tail(rest),
                           SubSeq(sorted, 1, ahead) \o << d >>
                               \o SubSeq(sorted, ahead + 1, Len(sorted)))

\* the drafts the effect sets
computeDrafts(txs, existingBudgets, profile) ==
    LET sortedMonths == sortedMonthsOf(txs)
        cats == expenseCategories(txs, {})
    IN  sortByAverage([i \in DOMAIN cats |->
                          draftOf(cats[i], txs, sortedMonths, existingBudgets, profile)],
                      << >>)

\* updateDraft(category, updates)
updateDraft(ds, category, updates) ==
    [i \in DOMAIN ds |->
        IF ds[i].category = category
        THEN [Spread(ds[i], updates) EXCEPT !.isModified = TRUE]
        ELSE ds[i]]

\* "Cutting below minimum on a stable bill"
belowMinimumOnStable(d) == ~d.isSavings /\ d.limit < d.min /\ belowFifth(d.volatility)

\* "Deep cuts on recurring items": d.limit < d.average * 0.8
deepCutOnRecurring(d) ==
    ~d.isSavings /\ 5 * d.limit < 4 * d.average /\ d.frequency = "Monthly"

\* the same test without its guard on savings
countsWithoutGuard(d) ==
    \/ d.limit < d.min /\ belowFifth(d.volatility)
    \/ 5 * d.limit < 4 * d.average /\ d.frequency = "Monthly"

\* whether the forEach of impactAnalysis adds one to riskyCuts for the draft
countsAsRisky(d) ==
    IF belowMinimumOnStable(d) THEN TRUE
    ELSE IF deepCutOnRecurring(d) THEN TRUE
    ELSE FALSE

impactAnalysis(ds, income) ==
    LET currentTotalSpent ==
            sumOf([i \in DOMAIN ds |-> IF ds[i].isSavings THEN 0 ELSE ds[i].average])
        newTotalBudget ==
            sumOf([i \in DOMAIN ds |-> IF ds[i].isSavings THEN 0 ELSE ds[i].limit])
    IN  [plannedNetSavings |->
            IF income.num > 0
            THEN [num |-> income.num - newTotalBudget * income.den, den |-> income.den]
            ELSE [num |-> currentTotalSpent - newTotalBudget, den |-> 1],
         newTotalBudget |-> newTotalBudget,
         riskyCuts |-> Cardinality({ i \in DOMAIN ds : countsAsRisky(ds[i]) }),
         freedUpCash |-> currentTotalSpent - newTotalBudget]

\* the budgets handleSaveAll hands to onSave
budgetsToSave(ds) ==
    LET Kept(d) == d.isModified \/ d.strategy # "maintain" \/ d.isSavings
        kept == SelectSeq(ds, Kept)
    IN  [i \in DOMAIN kept |->
            [category |-> kept[i].category, limit |-> kept[i].limit,
             period |-> "monthly", strategy |-> kept[i].strategy]]

\* updated.findIndex(b => b.category === category), 0 for -1 and positions from 1
findIndex(updated, category) ==
    IF \E i \in DOMAIN updated : updated[i].category = category
    THEN CHOOSE i \in DOMAIN updated :
             /\ updated[i].category = category
             /\ \A j \in 1..(i - 1) : updated[j].category # category
    ELSE 0

\* Date.now().toString() + Math.random(): an id no stored budget has (budgets are
\* never removed, so their number grows with every id made)
newId(updated) == Len(updated) + 1

\* a step that appends whatever is stored
pushAlways(updated, newB) == Append(updated, Spread(newB, [id |-> newId(updated)]))

\* one step of newBudgets.forEach: the budget of the category is replaced under
\* its id, or the new budget is pushed under a new id
addOne(updated, newB) ==
    LET idx == findIndex(updated, newB.category)
    IN  IF idx > 0
        THEN [updated EXCEPT ![idx] = Spread(newB, [id |-> updated[idx].id])]
        ELSE Append(updated, Spread(newB, [id |-> newId(updated)]))

RECURSIVE addEach(_, _)
\* newBudgets.forEach over the copy of prev
addEach(updated, newBudgets) ==
    IF newBudgets = << >> THEN updated
    ELSE addEach(addOne(updated, Head(newBudgets)), Tail(newBudgets))

\* addBudget(budgetOrBudgets) as the updater of setBudgets: a single budget is a
\* list of one
addBudget(prev, budgetOrBudgets, isArray) ==
    addEach(prev, IF isArray THEN budgetOrBudgets ELSE << budgetOrBudgets >>)

\* a transaction, for the fields the planner reads
Tx(year, month, type, isTransfer, category, amount) ==
    [date |-> [year |-> year, month |-> month], type |-> type, isTransfer |-> isTransfer,
     category |-> category, amount |-> amount]

\* one expense of the category in each of the months first..last of a year
Monthly(year, first, last, category, amount) ==
    [i \in 1..(last - first + 1) |->
        Tx(year, first + i - 1, "expense", FALSE, category, amount)]

\* rent: none, three even months, thirteen even months, one month of an amount
\* that is not whole
RentStreams ==
    { << >>,
      Monthly(2025, 1, 3, "Rent", Shillings(100)),
      Monthly(2024, 3, 12, "Rent", Shillings(100)) \o Monthly(2025, 1, 3, "Rent", Shillings(100)),
      Monthly(2025, 3, 3, "Rent", Shillings(100) + 1) }

\* eating out: none, three even months, two payments in one month
EatingStreams ==
    { << >>,
      Monthly(2025, 1, 3, "Eating Out", Shillings(10)),
      << Tx(2025, 2, "expense", FALSE, "Eating Out", Shillings(3)),
         Tx(2025, 2, "expense", FALSE, "Eating Out", Shillings(4)) >> }

SavingsStreams ==
    { << >>, Monthly(2025, 3, 3, "Savings", Shillings(50)) }

\* a later month that holds income only or a transfer only
OtherStreams ==
    { << >>,
      << Tx(2025, 4, "income", FALSE, "Income", Shillings(1000)) >>,
      << Tx(2025, 4, "expense", TRUE, "Internal Transfer", Shillings(500)) >> }

Histories ==
    { rent \o eating \o savings \o other :
        rent \in RentStreams, eating \in EatingStreams, savings \in SavingsStreams,
        other \in OtherStreams } \ { << >> }

FinancialGoals ==
    { "save_emergency", "pay_debt", "invest", "buy_asset", "travel", "control_spend" }

\* the stored profiles: a goal that cuts, one that cuts less and raises savings, one
\* that only raises savings
Profiles == { [primaryGoal |-> g] : g \in FinancialGoals \cap {"pay_debt", "invest", "travel"} }

Budget(id, category, limit, strategy) ==
    [id |-> id, category |-> category, limit |-> limit, period |-> "monthly",
     strategy |-> strategy]

\* stored budgets: their categories differ
BudgetLists ==
    { << Budget(1, "Rent", Shillings(90), "custom") >>,
      << Budget(1, "Eating Out", Shillings(5), "aggressive"),
         Budget(2, "Savings", Shillings(40), "maintain") >> }

\* what the user types as a limit, read by parseInt
CustomValues == { 95 }

\* the state of enrichment, validation, import and the cache
serviceVars ==
    << memoryCache, localStorage, storageWritable, pc, call, retries, delay, result,
       degraded, lastResponse, attempts, requests, waits, cacheReads, cacheWrites,
       entry, calls, validationCache, modalVars >>

\* nothing has been shown yet: the stored values are read when the app mounts
Mounting == ~isOpen /\ drafts = << >>

\* useLocalStorage('transactions', [])
LoadTransactions ==
    /\ Mounting
    /\ transactions = << >>
    /\ transactions' \in Histories
    /\ UNCHANGED << budgets, userProfile, isOpen, drafts, avgMonthlyIncome >>
    /\ UNCHANGED << serviceVars, merchantVars >>

\* useLocalStorage('budgets', [])
LoadBudgets ==
    /\ Mounting
    /\ budgets = << >>
    /\ budgets' \in BudgetLists
    /\ UNCHANGED << transactions, userProfile, isOpen, drafts, avgMonthlyIncome >>
    /\ UNCHANGED << serviceVars, merchantVars >>

\* useLocalStorage('userProfile', null)
LoadProfile ==
    /\ Mounting
    /\ userProfile = JNull
    /\ userProfile' \in Profiles
    /\ UNCHANGED << transactions, budgets, isOpen, drafts, avgMonthlyIncome >>
    /\ UNCHANGED << serviceVars, merchantVars >>

\* setIsBudgetModalOpen(true), and the effect that then runs
OpenBudgetModal ==
    /\ ~isOpen
    /\ isOpen' = TRUE
    /\ \E initialDrafts \in { computeDrafts(transactions, budgets, userProfile) } :
           drafts' = initialDrafts
    /\ avgMonthlyIncome' = calculatedIncomeAvg(transactions)
    /\ UNCHANGED << transactions, budgets, userProfile >>
    /\ UNCHANGED << serviceVars, merchantVars >>

\* handleCustomLimitChange(category, value)
CustomLimitChange ==
    /\ isOpen
    /\ \E i \in DOMAIN drafts, val \in CustomValues :
           drafts' = updateDraft(drafts, drafts[i].category,
                                 [strategy |-> "custom", limit |-> Shillings(val)])
    /\ UNCHANGED << transactions, budgets, userProfile, isOpen, avgMonthlyIncome >>
    /\ UNCHANGED << serviceVars, merchantVars >>

\* handleSaveAll: onSave is addBudget, then onClose
SaveAll ==
    /\ isOpen
    /\ budgets' = addBudget(budgets, budgetsToSave(drafts), TRUE)
    /\ isOpen' = FALSE
    /\ UNCHANGED << transactions, userProfile, drafts, avgMonthlyIncome >>
    /\ UNCHANGED << serviceVars, merchantVars >>

\* the Discard button: onClose
Discard ==
    /\ isOpen
    /\ isOpen' = FALSE
    /\ UNCHANGED << transactions, budgets, userProfile, drafts, avgMonthlyIncome >>
    /\ UNCHANGED << serviceVars, merchantVars >>

PlannerNext ==
    \/ LoadTransactions
    \/ LoadBudgets
    \/ LoadProfile
    \/ OpenBudgetModal
    \/ CustomLimitChange
    \/ SaveAll
    \/ Discard

\* the planner reads neither the cache nor its storage: one start state stands
\* for all
PlannerInit == Init /\ localStorage.kind = "absent" /\ storageWritable

PlannerSpec == PlannerInit /\ [][PlannerNext]_vars

(***************************************************************************)
(* FinancialContext.addBudget called on its own                            *)
(***************************************************************************)

\* Omit<Budget, 'id'> values a caller may pass
NewBudgets ==
    [category : {"Rent", "Eating Out"}, limit : {Shillings(50), Shillings(60)},
     period : {"monthly"}, strategy : {"custom", "maintain"}]

\* the lists a caller may pass: a category may occur twice in one list
NewBudgetLists == { << a, b >> : a \in NewBudgets, b \in NewBudgets }

\* addBudget(budget)
AddBudget ==
    /\ \E newB \in NewBudgets :
           /\ budgets' = addBudget(budgets, newB, FALSE)
           /\ call' = [op |-> "addBudget", newBudgets |-> << newB >>]
    /\ UNCHANGED << memoryCache, localStorage, storageWritable, pc, retries, delay, result,
                    degraded, lastResponse, attempts, requests, waits, cacheReads,
                    cacheWrites, entry, calls, validationCache, modalVars >>
    /\ UNCHANGED << transactions, userProfile, isOpen, drafts, avgMonthlyIncome >>
    /\ UNCHANGED merchantVars

\* addBudget(budgets)
AddBudgetList ==
    /\ \E list \in NewBudgetLists :
           /\ budgets' = addBudget(budgets, list, TRUE)
           /\ call' = [op |-> "addBudget", newBudgets |-> list]
    /\ UNCHANGED << memoryCache, localStorage, storageWritable, pc, retries, delay, result,
                    degraded, lastResponse, attempts, requests, waits, cacheReads,
                    cacheWrites, entry, calls, validationCache, modalVars >>
    /\ UNCHANGED << transactions, userProfile, isOpen, drafts, avgMonthlyIncome >>
    /\ UNCHANGED merchantVars

BudgetNext ==
    \/ LoadBudgets
    \/ AddBudget
    \/ AddBudgetList

BudgetSpec == PlannerInit /\ [][BudgetNext]_vars

(***************************************************************************)
(* MerchantService (part_007): identifyMerchants and searchAndCache        *)
(***************************************************************************)

\* does the text lit stand at position i of s, as written
textAt(s, i, lit) ==
    /\ i >= 1
    /\ i + Len(lit) - 1 <= Len(s)
    /\ SubSeq(s, i, i + Len(lit) - 1) = lit

\* is there a digit at position i of s
digitAt(s, i) == i >= 1 /\ i <= Len(s) /\ IsDigit(SubSeq(s, i, i))

\* /IBKG MPESA PAY TO \d{12}|MPESA TO ACC|MOBILE MONEY/.test(s)
isP2PTransfer(s) ==
    \/ \E i \in 1..Len(s) :
           /\ textAt(s, i, "IBKG MPESA PAY TO ")
           /\ \A k \in 0..11 : digitAt(s, i + Len("IBKG MPESA PAY TO ") + k)
    \/ includes(s, "MPESA TO ACC")
    \/ includes(s, "MOBILE MONEY")

\* /[*\d]{2,}|PENDING|TXN|TILL/.test(s)
needsCleanup(s) ==
    \/ \E i \in 1..(Len(s) - 1) :
           /\ SubSeq(s, i, i) \in Digits \cup {"*"}
           /\ SubSeq(s, i + 1, i + 1) \in Digits \cup {"*"}
    \/ includes(s, "PENDING")
    \/ includes(s, "TXN")
    \/ includes(s, "TILL")

\* /EXCISE DUTY|CHARGE|PAYMENT OF \d+|CORR\.|REV-/.test(s)
isFeeOrCharge(s) ==
    \/ includes(s, "EXCISE DUTY")
    \/ includes(s, "CHARGE")
    \/ \E i \in 1..Len(s) :
           textAt(s, i, "PAYMENT OF ") /\ digitAt(s, i + Len("PAYMENT OF "))
    \/ includes(s, "CORR.")
    \/ includes(s, "REV-")

\* this.dictionary[name], as the if (...) tests see it
known(dict, name) == name \in DOMAIN dict /\ dict[name] # ""

\* this.dictionary[name] = value
remember(dict, name, value) ==
    [x \in DOMAIN dict \cup {name} |-> IF x = name THEN value ELSE dict[x]]

\* saveDictionary: the whole dictionary is serialised; a failing setItem is swallowed
saveDictionary(dict, stored, writable) ==
    IF writable THEN [kind |-> "json", map |-> dict] ELSE stored

\* a skip test that looks at the dictionary only
skipKnownOnly(dict, pending, merchant) == known(dict, merchant)

\* line 70: skip the transaction when its merchant is in the dictionary or pending
skip(dict, pending, merchant) == known(dict, merchant) \/ merchant \in pending

\* Map.prototype.set on the keys of merchantsToSearch, kept in insertion order
setName(names, name) ==
    IF \E k \in 1..Len(names) : names[k] = name THEN names ELSE Append(names, name)

\* the statement lines the service is given; an imported row carries the line as
\* its merchant and as its description
TillLine == "DEBIT CARD TXN AT MAF 8144 TILL 2 NAIROBI  12-11-2025"

TillName == "MAF 8144 TILL 2 NAIROBI"

MerchantLines ==
    { TillLine, "Shop A", "Shop B", "Shop C", "Shop D", "Shop E", "Shop F",
      "MPESA TO ACC 123", "EXCISE DUTY", "Lipa na M-PESA to Naivas" }

\* extractHeuristicData(t.description || t.merchant).merchant for these lines
extractedMerchant == [d \in MerchantLines |-> extractHeuristicData(d).merchant]

\* one pass of the forEach body (lines 68-117) over the transactions from n on;
\* st holds the dictionary, the stored item and the keys of merchantsToSearch
RECURSIVE forEach(_, _, _, _, _)
forEach(ts, n, st, pending, writable) ==
    IF n > Len(ts) THEN st
    ELSE LET t       == ts[n]
             subject == IF t.description # "" THEN t.description ELSE t.merchant
             ex      == extractedMerchant[subject]
             cached(value) ==
                 LET dict == remember(st.dictionary, t.merchant, value)
                 IN  [st EXCEPT !.dictionary = dict,
                                !.stored = saveDictionary(dict, st.stored, writable)]
             after ==
                 IF skip(st.dictionary, pending, t.merchant) THEN st
                 ELSE IF isP2PTransfer(subject) THEN cached("Mobile Money Transfer")
                 ELSE IF Truthy(ex)
                 THEN IF ~known(st.dictionary, ex.v)
                      THEN IF needsCleanup(ex.v)
                           THEN [st EXCEPT !.merchantsToSearch = setName(@, ex.v)]
                           ELSE cached(ex.v)
                      ELSE [st EXCEPT !.dictionary =
                                remember(@, t.merchant, st.dictionary[ex.v])]
                 ELSE IF isFeeOrCharge(subject) THEN cached(t.merchant)
                 ELSE [st EXCEPT !.merchantsToSearch = setName(@, t.merchant)]
         IN  forEach(ts, n + 1, after, pending, writable)

BATCH_SIZE == 5

MAX_SEARCHES == 50

\* Array.prototype.slice(from, to) with from and to counted from 0
sliceOf(list, from, to) ==
    SubSeq(list, from + 1, IF to < Len(list) THEN to ELSE Len(list))

\* the names of the batch that starts at index i of the queue
batchAt(queue, i) ==
    LET batch == sliceOf(queue, i, i + BATCH_SIZE)
    IN  { batch[k] : k \in 1..Len(batch) }

\* the callers of identifyMerchants: each awaits nothing of the other
InvocationIds == { "first", "second" }

Row(line) == [merchant |-> line, description |-> line]

\* the transaction lists identifyMerchants is given
TransactionLists ==
    { << Row(TillLine) >>,
      << Row("Shop A"), Row("Shop B"), Row("Shop C"), Row("Shop D"), Row("Shop E"),
         Row("Shop F") >>,
      << Row("MPESA TO ACC 123"), Row("EXCISE DUTY"), Row("Lipa na M-PESA to Naivas") >> }

\* what searchMerchant resolves to for a name: the cleaned title of the first
\* result, or null (no result, or any error of fetch)
SearchResults(name) == { Str("Found " \o name), JNull }

\* the searches of invocation id that are not yet answered
searchesOf(id) == { s \in inFlight : s.id = id }

\* identifyMerchants(transactions) with the API key and the engine id configured:
\* the call runs to the dynamic import (line 63)
IdentifyMerchants ==
    /\ \E id \in InvocationIds \ DOMAIN invocations, list \in TransactionLists :
           invocations' =
               [k \in DOMAIN invocations \cup {id} |->
                    IF k = id
                    THEN [at |-> "import", transactions |-> list, queue |-> << >>,
                          i |-> 0]
                    ELSE invocations[k]]
    /\ UNCHANGED << dictionary, pendingSearches, inFlight, merchantStorage >>
    /\ UNCHANGED << serviceVars, plannerVars >>

\* the import has resolved: the forEach runs, and the first batch of searches is
\* started (lines 66-139); every searchAndCache runs to its await
StartSearches ==
    /\ \E id \in DOMAIN invocations :
           /\ invocations[id].at = "import"
           /\ \E st \in { forEach(invocations[id].transactions, 1,
                                  [dictionary |-> dictionary, stored |-> merchantStorage,
                                   merchantsToSearch |-> << >>],
                                  pendingSearches, storageWritable) } :
                  LET limitedQueue == sliceOf(st.merchantsToSearch, 0, MAX_SEARCHES)
                      batch        == batchAt(limitedQueue, 0)
                  IN  /\ dictionary' = st.dictionary
                      /\ merchantStorage' = st.stored
                      /\ pendingSearches' = pendingSearches \cup batch
                      /\ inFlight' = inFlight \cup { [id |-> id, name |-> b] : b \in batch }
                      /\ invocations' =
                             [invocations EXCEPT ![id] =
                                 [@ EXCEPT !.at = IF limitedQueue = << >> THEN "returned"
                                                  ELSE "batch",
                                           !.queue = limitedQueue]]
    /\ UNCHANGED << serviceVars, plannerVars >>

\* searchMerchant settles for one search: the rest of searchAndCache runs (lines
\* 152-164)
SearchSettles ==
    /\ \E s \in inFlight : \E enrichedName \in SearchResults(s.name) :
           /\ \E dict \in { IF Truthy(enrichedName)
                            THEN remember(dictionary, s.name, enrichedName.v)
                            ELSE dictionary } :
                  /\ dictionary' = dict
                  /\ merchantStorage' =
                         IF Truthy(enrichedName)
                         THEN saveDictionary(dict, merchantStorage, storageWritable)
                         ELSE merchantStorage
           /\ pendingSearches' = pendingSearches \ { s.name }
           /\ inFlight' = inFlight \ { s }
    /\ UNCHANGED invocations
    /\ UNCHANGED << serviceVars, plannerVars >>

\* Promise.all of the batch has resolved: the call returns after the last batch,
\* and sleeps before any other (lines 142-145)
BatchDone ==
    /\ \E id \in DOMAIN invocations :
           /\ invocations[id].at = "batch"
           /\ searchesOf(id) = {}
           /\ invocations' =
                  [invocations EXCEPT ![id] =
                      [@ EXCEPT !.at = IF invocations[id].i + BATCH_SIZE
                                              < Len(invocations[id].queue)
                                          THEN "delay" ELSE "returned"]]
    /\ UNCHANGED << dictionary, pendingSearches, inFlight, merchantStorage >>
    /\ UNCHANGED << serviceVars, plannerVars >>

\* the delay between batches has passed: the next batch of searches is started
\* (lines 137-139)
NextBatch ==
    /\ \E id \in DOMAIN invocations :
           /\ invocations[id].at = "delay"
           /\ \E batch \in { batchAt(invocations[id].queue,
                                     invocations[id].i + BATCH_SIZE) } :
                  /\ pendingSearches' = pendingSearches \cup batch
                  /\ inFlight' = inFlight \cup { [id |-> id, name |-> b] : b \in batch }
           /\ invocations' =
                  [invocations EXCEPT ![id] =
                      [@ EXCEPT !.at = "batch", !.i = @ + BATCH_SIZE]]
    /\ UNCHANGED << dictionary, merchantStorage >>
    /\ UNCHANGED << serviceVars, plannerVars >>

MerchantNext ==
    \/ IdentifyMerchants
    \/ StartSearches
    \/ SearchSettles
    \/ BatchDone
    \/ NextBatch

\* the service reads neither the enrichment cache nor its blob
MerchantSpec == PlannerInit /\ [][MerchantNext]_vars

(***************************************************************************)
(* Properties                                                              *)
(***************************************************************************)

Merchant(v) == Get(v.v, "merchant")
Category(v) == Get(v.v, "category")

\* the current call is an enrichTransaction whose description the Pattern Extractor
\* gives a merchant and whose merchant the Category Rule Table gives a category
RuleTableHit ==
    /\ call.op = "enrich"
    /\ LET h == extractHeuristicData(call.transaction.description.v)
       IN  /\ h.merchant # JNull
           /\ h.merchant.v # ""
           /\ getCategoryForMerchant(h.merchant.v) # JNull

\* the candidate merchant of the current call, or "Unknown"
CandidateOrUnknown ==
    IF call.identifiedMerchant.t = "string" /\ call.identifiedMerchant.v # ""
    THEN call.identifiedMerchant ELSE Str("Unknown")

\* the remote client rejected the call or answered with a text that is no JSON
RemoteFailed ==
    \/ lastResponse.kind = "error"
    \/ lastResponse.kind = "text" /\ ~lastResponse.text.parsable

\* C1: when the Pattern Extractor yields a merchant and the Category Rule Table maps
\* it to a category, enrich returns that merchant and that category at once, and it
\* has not read the cache (which stays unhydrated if it was), sent no request and
\* written nothing to the cache or to storage.
C1_RuleHitReturnsAtOnce ==
    RuleTableHit =>
        /\ pc = "returned"
        /\ Merchant(result) = extractHeuristicData(call.transaction.description.v).merchant
        /\ Category(result) =
               getCategoryForMerchant(
                   extractHeuristicData(call.transaction.description.v).merchant.v)
        /\ cacheReads = 0
        /\ requests = 0
        /\ cacheWrites = 0
        /\ memoryCache = entry.memory
        /\ localStorage = entry.storage

\* a rule-table hit has returned while storage held a cache the call could have read
C1_Witness ==
    /\ RuleTableHit
    /\ pc = "returned"
    /\ Merchant(result) = Str("Naivas Westlands")
    /\ Category(result) = Str("Groceries")
    /\ entry.storage.kind = "json"
    /\ ~entry.memory.loaded

\* the current call is an enrichTransaction that the rule table did not resolve and
\* whose cacheKey was in the cache when the call began
CacheHit ==
    /\ call.op = "enrich"
    /\ ~RuleTableHit
    /\ call.cacheKey \in DOMAIN entry.cache

\* C2: on a cache hit in single-item enrich the result carries the cached category
\* and enrichedInfo, its merchant is the heuristically extracted name when there is
\* one (a non-empty string) and the cached merchant otherwise, and no request is sent.
C2_CacheHit ==
    CacheHit =>
        LET cached == entry.cache[call.cacheKey]
        IN  /\ pc = "returned"
            /\ Category(result) = Get(cached, "category")
            /\ Get(result.v, "enrichedInfo") = Get(cached, "enrichedInfo")
            /\ Merchant(result) = IF Truthy(call.identifiedMerchant)
                                  THEN call.identifiedMerchant
                                  ELSE Get(cached, "merchant")
            /\ requests = 0

\* a cache hit where the extracted merchant and the cached merchant differ
C2_Witness ==
    /\ CacheHit
    /\ pc = "returned"
    /\ Truthy(call.identifiedMerchant)
    /\ Get(entry.cache[call.cacheKey], "merchant") # call.identifiedMerchant
    /\ Merchant(result) = call.identifiedMerchant

\* a cache hit without an extracted merchant: the cached merchant is returned
C2_WitnessCachedMerchant ==
    /\ CacheHit
    /\ pc = "returned"
    /\ ~Truthy(call.identifiedMerchant)
    /\ Merchant(result) = Str("Mama Mboga Grocers")

\* the current enrichTransaction went to the remote layer and its task returned the
\* remote result
RemoteSucceeded ==
    /\ call.op = "enrich"
    /\ pc = "returned"
    /\ requests > 0
    /\ ~degraded

\* C3 as stated: after a successful remote enrichment the cache entry under the
\* cacheKey has the same merchant and the same category as the returned transaction.
C3_CachedEqualsReturned ==
    RemoteSucceeded =>
        /\ call.cacheKey \in DOMAIN memoryCache.map
        /\ Get(memoryCache.map[call.cacheKey], "merchant") = Merchant(result)
        /\ Get(memoryCache.map[call.cacheKey], "category") = Category(result)

\* C3 amended: after a successful remote enrichment the cache entry under the
\* cacheKey has the merchant and the category of the returned transaction, with
\* "Unknown" for a missing or empty merchant and "Other" for a missing or empty
\* category, and the same enrichedInfo.
C3_CachedEqualsReturnedOrDefault ==
    RemoteSucceeded =>
        /\ call.cacheKey \in DOMAIN memoryCache.map
        /\ Get(memoryCache.map[call.cacheKey], "merchant") =
               (IF Truthy(Merchant(result)) THEN Merchant(result) ELSE Str("Unknown"))
        /\ Get(memoryCache.map[call.cacheKey], "category") =
               (IF Truthy(Category(result)) THEN Category(result) ELSE Str("Other"))
        /\ Get(memoryCache.map[call.cacheKey], "enrichedInfo") =
               Get(result.v, "enrichedInfo")

\* a successful remote enrichment of a description with an extracted merchant, where
\* the remote merchant differs from it and is the one cached and returned
C3_Witness ==
    /\ RemoteSucceeded
    /\ Truthy(call.identifiedMerchant)
    /\ Merchant(result) = Str("Mama Mboga Grocers")
    /\ call.identifiedMerchant # Merchant(result)
    /\ Get(memoryCache.map[call.cacheKey], "merchant") = Str("Mama Mboga Grocers")

\* a successful remote enrichment whose answer carries no category
C3_WitnessDefault ==
    /\ RemoteSucceeded
    /\ Category(result) = JUndef
    /\ Get(memoryCache.map[call.cacheKey], "category") = Str("Other")

\* C4: whenever the remote call of enrich fails or answers with an unparsable text,
\* enrich returns (it does not throw and it is not retried into a throw) with
\* merchant = the candidate if there is one, else "Unknown", and category "Other".
C4_FailureDegrades ==
    (call.op = "enrich" /\ RemoteFailed) =>
        /\ pc = "returned"
        /\ Merchant(result) = CandidateOrUnknown
        /\ Category(result) = Str("Other")

\* enrich has returned after an unparsable answer, for a description with a candidate
C4_Witness ==
    /\ call.op = "enrich"
    /\ lastResponse = UnparsableResponse
    /\ pc = "returned"
    /\ Merchant(result) = Str("Mama Mboga")

\* enrich has returned after a rejected request, for a description without candidate
C4_WitnessUnknown ==
    /\ call.op = "enrich"
    /\ lastResponse = ErrorResponse
    /\ pc = "returned"
    /\ call.identifiedMerchant = JNull
    /\ Merchant(result) = Str("Unknown")

\* the current call is an enrichment, single or batched, that returned the value of
\* its task's catch block
ReturnedDegraded ==
    /\ call.op \in {"enrich", "batch"}
    /\ pc = "returned"
    /\ degraded

\* C5: when the remote call fails, enrich and the batched variant re-attempt it
\* under the retry policy and return the degraded result only once the retries are
\* exhausted.
C5_DegradedOnlyAfterRetries ==
    ReturnedDegraded => (retries = 0 /\ attempts = DefaultRetries + 1)

\* C6: a call to enrich or to the batched variant that returns the degraded fallback
\* leaves the cache, in memory and in storage, as it was before the call.
C6_DegradedLeavesCache ==
    ReturnedDegraded =>
        /\ CacheView(memoryCache, localStorage) = entry.cache
        /\ localStorage = entry.storage
        /\ cacheWrites = 0

\* C7: calling enrich twice in a row on the same transaction with the same examples
\* yields the same merchant and category both times, and the second call sends no
\* request.  Stated for a first call that did not degrade and that returned a
\* merchant and a category, the reading most favourable to the code: the step that
\* begins the second call returns at once with the same two.
C7_Idempotent ==
    [][ ( /\ pc = "returned"
          /\ call.op = "enrich"
          /\ ~degraded
          /\ Truthy(Merchant(result))
          /\ Truthy(Category(result))
          /\ calls' = calls + 1
          /\ call'.op = "enrich"
          /\ call'.transaction = call.transaction
          /\ call'.examples = call.examples )
        => ( /\ pc' = "returned"
             /\ requests' = 0
             /\ Merchant(result') = Merchant(result)
             /\ Category(result') = Category(result) ) ]_vars

\* the indexes of the items of the current batch call and of the results it returned
ItemIndexes   == [j \in 1..Len(call.items) |-> Num(call.items[j].index)]
ResultIndexes == [k \in 1..Len(result.v) |-> Get(result.v[k].v, "index")]

\* C8: whatever the remote client answers, the output of the batched variant has
\* exactly one item for each input item, carrying its index, and no other item.
C8_OneResultPerItem ==
    (call.op = "batch" /\ pc = "returned") =>
        /\ \A j \in 1..Len(call.items) :
              Cardinality({k \in 1..Len(result.v) : ResultIndexes[k] = ItemIndexes[j]}) = 1
        /\ \A k \in 1..Len(result.v) :
              \E j \in 1..Len(call.items) : ResultIndexes[k] = ItemIndexes[j]

\* C9: an invocation of the batched variant issues at most one request to the remote
\* client, and none when its list is empty.
C9_OneRequestPerBatch ==
    call.op = "batch" =>
        /\ requests <= 1
        /\ attempts <= 1
        /\ (Len(call.items) = 0 => requests = 0)

\* a batch of two items has returned after its one request was rejected
C9_Witness ==
    /\ call.op = "batch"
    /\ Len(call.items) = 2
    /\ pc = "returned"
    /\ lastResponse = ErrorResponse
    /\ requests = 1

\* an empty batch has returned
C9_WitnessEmpty ==
    /\ call.op = "batch"
    /\ Len(call.items) = 0
    /\ pc = "returned"
    /\ requests = 0

ParseCall == call.op \in {"parseText", "parseFile"}

\* C10 as stated: with the default settings a remote operation that fails on every
\* attempt is attempted 3 times, waiting 500 ms and then 1000 ms, and then throws.
C10_ThreeAttempts ==
    (ParseCall /\ pc = "threw") => (attempts = 3 /\ waits = << 500, 1000 >>)

\* C10 amended: with the default settings a remote operation that fails on every
\* attempt is attempted 4 times (once, then 3 retries), waiting 500 ms before the
\* second attempt, 1000 ms before the third and 2000 ms before the fourth, after
\* which the failure is thrown to the caller; it is never attempted a fifth time.
C10_FourAttempts ==
    ParseCall =>
        /\ attempts \in 1..4
        /\ waits = SubSeq(<< 500, 1000, 2000 >>, 1, attempts - 1)
        /\ (pc = "threw" => attempts = 4)
        /\ (pc = "backoff" => attempts < 4)

\* statement parsing has thrown after four failed attempts
C10_Witness ==
    /\ call.op = "parseFile"
    /\ pc = "threw"
    /\ attempts = 4
    /\ waits = << 500, 1000, 2000 >>

C12_ConfirmEventuallyEnabled ==
    (enrichAll = "awaiting") ~> (step = "review" /\ ~isEnriching)

\* the current call is an extractHeuristicData
ExtractCalled == call.op = "extractHeuristicData"

\* the rule list the called copy walks
ExtractRules == IF call.version = 1 THEN merchantExtractors ELSE merchantExtractors2

\* the rules whose pattern matches the trimmed description
MatchingRules ==
    {n \in 1..Len(ExtractRules) : match(trim(call.description), ExtractRules[n].regex).ok}

\* the lowest-positioned rule of a set of rules
FirstOf(rules) == CHOOSE n \in rules : \A k \in rules : n <= k

\* what rule n makes of the description: its prefix and its trimmed capture group,
\* white space runs collapsed
RuleResult(n) ==
    collapseSpaces(ExtractRules[n].prefix
                     \o trim(match(trim(call.description), ExtractRules[n].regex).cap))

\* C13: for every description, the merchant extractHeuristicData returns is the one
\* the lowest-positioned rule whose pattern matches the trimmed description makes of
\* it (its prefix and its capture group, normalised); no later matching rule
\* contributes.
C13_FirstMatchingRuleWins ==
    ExtractCalled =>
        \A matching \in {MatchingRules} :
            matching # {} => result.merchant = Str(RuleResult(FirstOf(matching)))

\* a description that two rules match with different outcomes
C13_Witness ==
    /\ ExtractCalled
    /\ pc = "returned"
    /\ \E matching \in {MatchingRules} :
          /\ matching # {}
          /\ \E n \in matching : RuleResult(n) # RuleResult(FirstOf(matching))
          /\ result.merchant = Str(RuleResult(FirstOf(matching)))

\* k is d without its leading and its trailing white space
IsTrimOf(k, d) ==
    \E i \in 1..(Len(d) + 1) : \E j \in (i - 1)..Len(d) :
        /\ k = SubSeq(d, i, j)
        /\ \A x \in (1..(i - 1)) \cup ((j + 1)..Len(d)) : IsSpace(CharAt(d, x))
        /\ j >= i => ~IsSpace(CharAt(d, i)) /\ ~IsSpace(CharAt(d, j))

\* C14: extractHeuristicData returns merchant = null exactly when no rule matches,
\* and then cacheKey is the trimmed description; when a rule matches, merchant is a
\* string and cacheKey is that string.
C14_NullIffNoMatch ==
    ExtractCalled =>
        \A matching \in {MatchingRules} :
            /\ result.merchant = JNull <=> matching = {}
            /\ matching = {} => IsTrimOf(result.cacheKey, call.description)
            /\ matching # {} =>
                   result.merchant.t = "string" /\ result.cacheKey = result.merchant.v

\* no rule matches a description that has white space around it
C14_Witness ==
    /\ ExtractCalled
    /\ pc = "returned"
    /\ result.merchant = JNull
    /\ result.cacheKey # call.description
    /\ IsTrimOf(result.cacheKey, call.description)
    /\ MatchingRules = {}

\* sub is a substring of s when case is ignored
ContainsIgnoringCase(s, sub) ==
    \E i \in 1..(Len(s) - Len(sub) + 1) :
        toLowerCase(SubSeq(s, i, i + Len(sub) - 1)) = toLowerCase(sub)

\* the current call is a getCategoryForMerchant
CategoryCalled == call.op = "getCategoryForMerchant"

\* the rules one of whose keywords is in the merchant name
MatchingCategoryRules ==
    {n \in 1..Len(categoryRules) :
        \E j \in 1..Len(categoryRules[n].keywords) :
            ContainsIgnoringCase(call.merchantName, categoryRules[n].keywords[j])}

\* C15: getCategoryForMerchant returns the category of the first rule, in table
\* order, one of whose keywords is a case-insensitive substring of the merchant
\* name, and null when no rule has such a keyword.
C15_FirstRuleInTableOrder ==
    CategoryCalled =>
        \A matching \in {MatchingCategoryRules} :
            result = IF matching = {} THEN JNull
                     ELSE Str(categoryRules[FirstOf(matching)].category)

\* a name in upper case that holds keywords of two rules with different categories,
\* the keyword of the later rule standing first in the name
C15_Witness ==
    /\ CategoryCalled
    /\ pc = "returned"
    /\ call.merchantName = "KCB Prepaid"
    /\ \E matching \in {MatchingCategoryRules} :
          \E n \in matching :
              categoryRules[n].category # categoryRules[FirstOf(matching)].category
    /\ result = Str("Utilities")

\* a getCachedEnrichment, a setCachedEnrichment has returned
CacheGetReturned == call.op = "get" /\ pc = "returned"
CacheSetReturned == call.op = "set" /\ pc = "returned"

\* C16: a get(key) that follows set(key, data) returns data, also when the key held
\* an earlier value (the last writer wins) and when other keys were set before.
C16_SetThenGet ==
    (CacheGetReturned /\ entry.previous.op = "set" /\ entry.previous.key = call.key) =>
        result = Obj(entry.previous.data)

\* the get returns the value just set although storage still holds an earlier value
\* of the key, and another key is cached
C16_Witness ==
    /\ CacheGetReturned
    /\ entry.previous.op = "set"
    /\ entry.previous.key = call.key
    /\ result = Obj(entry.previous.data)
    /\ localStorage.kind = "json"
    /\ call.key \in DOMAIN localStorage.map
    /\ localStorage.map[call.key] # JsonRoundTrip(entry.previous.data)
    /\ \E other \in DOMAIN memoryCache.map : other # call.key

\* the blob holds exactly the entries of the map in memory, as JSON keeps them
BlobEqualsMap ==
    /\ localStorage.kind = "json"
    /\ memoryCache.loaded
    /\ localStorage.map = [key \in DOMAIN memoryCache.map |-> JsonRoundTrip(memoryCache.map[key])]

\* C17 as stated: after every set(key, data) returns, the blob in durable storage
\* contains exactly the entries of the in-memory map.
C17_BlobEqualsMap == CacheSetReturned => BlobEqualsMap

\* C17: after every set(key, data) returns, the blob in durable storage contains
\* exactly the entries of the in-memory map when storage accepted the write, and is
\* what it was before the set when storage refused it.
C17_BlobEqualsMapIfWritten ==
    CacheSetReturned =>
        IF storageWritable THEN BlobEqualsMap ELSE localStorage = entry.storage

\* a set whose write put into the blob a key that the blob lacked and that is not
\* the key just set
C17_Witness ==
    /\ CacheSetReturned
    /\ storageWritable
    /\ BlobEqualsMap
    /\ \E other \in DOMAIN memoryCache.map :
          /\ other # call.key
          /\ entry.storage.kind = "json" => other \notin DOMAIN entry.storage.map

\* C18: once the map is in memory, a get returns the in-memory value and leaves the
\* map as it is, and a set changes the in-memory map only, whatever the blob holds
\* then: storage is read by the first access only.
C18_HydratedOnce ==
    /\ (CacheGetReturned /\ entry.memory.loaded) =>
          /\ result = MapGet(entry.memory.map, call.key)
          /\ memoryCache = entry.memory
          /\ \A blob \in InitialBlobs :
                getCachedEnrichment(entry.memory, blob, call.key).value = result
    /\ (CacheSetReturned /\ entry.memory.loaded) =>
          memoryCache.map = MapSet(entry.memory.map, call.key, call.data)

\* a get returns an entry of the map in memory after the blob was removed or broken
C18_Witness ==
    /\ CacheGetReturned
    /\ entry.memory.loaded
    /\ entry.storage.kind \in {"absent", "corrupt"}
    /\ result # JUndef
    /\ result = MapGet(entry.memory.map, call.key)

\* C19: when storage holds no blob or a blob that cannot be parsed, the first access
\* yields an empty cache: a get returns undefined and leaves an empty map, a set
\* leaves a map with its entry alone and writes it through, and every call returns.
C19_MissingOrCorruptIsEmpty ==
    (call.op \in {"get", "set"} /\ entry.storage.kind \in {"absent", "corrupt"}
        /\ entry.cache = EmptyMap) =>
        /\ pc = "returned"
        /\ memoryCache.loaded
        /\ call.op = "get" => result = JUndef /\ memoryCache.map = EmptyMap
        /\ call.op = "set" =>
              /\ memoryCache.map = [key \in {call.key} |-> call.data]
              /\ storageWritable => BlobEqualsMap

\* a set that follows the first get over a corrupt blob and replaces the blob
C19_Witness ==
    /\ CacheSetReturned
    /\ entry.storage.kind = "corrupt"
    /\ entry.previous.op = "get"
    /\ entry.memory = [loaded |-> TRUE, map |-> EmptyMap]
    /\ storageWritable
    /\ BlobEqualsMap

\* what get(key) would return is not undefined
Present(key) == getCachedEnrichment(memoryCache, localStorage, key).value # JUndef

\* the blob holds an entry for key
Persisted(key) == localStorage.kind = "json" /\ key \in DOMAIN localStorage.map

\* the step is a get or a set; the step is a restart
CacheStep == call'.op \in {"get", "set"} /\ pc' = "returned"
RestartStep ==
    /\ call'.op = "none"
    /\ memoryCache' = NullCache
    /\ UNCHANGED << localStorage, storageWritable >>

\* C20 as stated: once set(key, data) has been called, no later get or set and no
\* restart makes get(key) return undefined.
C20_EntryNeverLost ==
    [][\A key \in CacheKeys :
          /\ (Present(key) /\ CacheStep) => Present(key)'
          /\ (CacheSetReturned /\ call.key = key /\ RestartStep) => Present(key)']_vars

\* C20: once set(key, data) has been called, no later get or set makes get(key)
\* return undefined, and a restart does not either when the blob holds the entry,
\* as it does after a set whose write storage accepted.
C20_EntryKeptIfPersisted ==
    [][\A key \in CacheKeys :
          /\ (Present(key) /\ CacheStep) => Present(key)'
          /\ (Present(key) /\ Persisted(key) /\ RestartStep) => Present(key)'
          /\ (CacheSetReturned /\ call.key = key /\ storageWritable /\ RestartStep) =>
                Present(key)']_vars

\* the first get of a new process finds an entry that only a set can have stored
C20_Witness ==
    /\ CacheGetReturned
    /\ ~entry.memory.loaded
    /\ entry.previous.op = "none"
    /\ call.key = "Naivas"
    /\ result # JUndef


\* the drafts as the effect left them: the planner is open and no draft was edited
FreshDrafts == isOpen /\ \A i \in DOMAIN drafts : ~drafts[i].isModified

\* C21: while the planner is open, every draft the user has not edited whose
\* category has a stored budget carries the limit and the strategy of that budget,
\* whatever the history and the goal
C21_ExistingBudgetWins ==
    isOpen =>
        \A i \in DOMAIN drafts, j \in DOMAIN budgets :
            (drafts[i].category = budgets[j].category /\ ~drafts[i].isModified)
                => /\ drafts[i].limit = budgets[j].limit
                   /\ drafts[i].strategy = budgets[j].strategy

\* a discretionary category with a budget of its own, under a goal that would
\* have proposed the moderate cut
C21_Witness ==
    /\ isOpen
    /\ userProfile = [primaryGoal |-> "invest"]
    /\ \E i \in DOMAIN drafts, j \in DOMAIN budgets :
           /\ drafts[i].category = budgets[j].category
           /\ ~drafts[i].isModified
           /\ drafts[i].isDiscretionary
           /\ drafts[i].strategy = "aggressive"
           /\ drafts[i].limit # drafts[i].average

\* the months of its history in which the draft's category spent something
ActiveMonths(d) == { k \in DOMAIN d.history : d.history[k] > 0 }

\* C22 as stated: a category with exactly one active month, of total V, has
\* average = V, min = V, max = V and volatility = 0
C22_SingleMonthStats ==
    FreshDrafts =>
        \A i \in DOMAIN drafts : \A active \in { ActiveMonths(drafts[i]) } :
            Cardinality(active) = 1 =>
                \A k \in active :
                    /\ drafts[i].average = drafts[i].history[k]
                    /\ drafts[i].min = drafts[i].history[k]
                    /\ drafts[i].max = drafts[i].history[k]
                    /\ drafts[i].volatility.num = 0

\* C22: a category with exactly one active month, of total V, has min = V and
\* max = V; when the window is that month alone its volatility is 0 and its average
\* is V rounded to whole shillings, V itself when V is whole
C22_SingleMonthAlone ==
    FreshDrafts =>
        \A i \in DOMAIN drafts : \A active \in { ActiveMonths(drafts[i]) } :
            Cardinality(active) = 1 =>
                \A k \in active :
                    /\ drafts[i].min = drafts[i].history[k]
                    /\ drafts[i].max = drafts[i].history[k]
                    /\ Len(drafts[i].history) = 1 =>
                           /\ drafts[i].volatility.num = 0
                           /\ drafts[i].average % Unit = 0
                           /\ 2 * (drafts[i].average - drafts[i].history[k]) <= Unit
                           /\ 2 * (drafts[i].history[k] - drafts[i].average) < Unit
                           /\ (drafts[i].history[k] % Unit = 0
                                   => drafts[i].average = drafts[i].history[k])

\* a window of one month that holds a whole total made of two payments
C22_Witness ==
    /\ FreshDrafts
    /\ \E i \in DOMAIN drafts :
           /\ Len(drafts[i].history) = 1
           /\ drafts[i].history[1] = Shillings(7)
           /\ drafts[i].average = Shillings(7)

\* the months that hold at least one expense that is not a transfer
ExpenseMonths ==
    { monthKey(transactions[i].date) :
        i \in { j \in DOMAIN transactions : isExpense(transactions[j]) } }

\* C23 as stated: every draft's vector is aligned to the (at most 12) most recent
\* months that hold an expense that is not a transfer; a month of income only or
\* of transfers only is not in the window
C23_WindowOfExpenseMonths ==
    FreshDrafts =>
        \A window \in { slice(sortReverse(ExpenseMonths), WindowMonths) } :
            \A i \in DOMAIN drafts :
                /\ Len(drafts[i].history) = Len(window)
                /\ \A k \in DOMAIN window :
                       drafts[i].history[k] =
                           expenseIn(transactions, drafts[i].category, window[k])

\* the draft no longer counted when the drafts are analysed without it
Without(ds, i) == [k \in 1..(Len(ds) - 1) |-> IF k < i THEN ds[k] ELSE ds[k + 1]]

\* what the draft adds to riskyCuts
CountedFor(i) ==
    impactAnalysis(drafts, avgMonthlyIncome).riskyCuts
        - impactAnalysis(Without(drafts, i), avgMonthlyIncome).riskyCuts

\* C24: a draft that is not savings, with limit < min and volatility < 0.2, adds
\* one to riskyCuts, and a savings draft adds nothing, whatever its limit
C24_RiskyCounted ==
    \A i \in DOMAIN drafts :
        /\ (~drafts[i].isSavings /\ drafts[i].limit < drafts[i].min
              /\ belowFifth(drafts[i].volatility)) => CountedFor(i) = 1
        /\ drafts[i].isSavings => CountedFor(i) = 0

\* an edited stable rent below its minimum is counted next to a savings draft
\* that is below its minimum and stable too, and is not
C24_Witness ==
    /\ isOpen
    /\ impactAnalysis(drafts, avgMonthlyIncome).riskyCuts = 1
    /\ \E i, j \in DOMAIN drafts :
           /\ ~drafts[i].isSavings /\ drafts[i].isModified
           /\ drafts[i].limit < drafts[i].min /\ belowFifth(drafts[i].volatility)
           /\ drafts[j].isSavings
           /\ drafts[j].limit < drafts[j].min /\ belowFifth(drafts[j].volatility)

\* C30 as stated: right after the drafts are computed, with no stored budget and
\* no edit, riskyCuts is 0
C30_ProposalsNeverRisky ==
    (FreshDrafts /\ budgets = << >>)
        => impactAnalysis(drafts, avgMonthlyIncome).riskyCuts = 0

\* C30: right after the drafts are computed, with no stored budget and no edit, a
\* proposal that is not a cut (strategy maintain or increase) over whole amounts
\* is not counted in riskyCuts; the cuts the planner proposes can be
C30_OnlyCutsAreRisky ==
    (FreshDrafts /\ budgets = << >>) =>
        \A i \in DOMAIN drafts :
            (/\ drafts[i].strategy \in {"maintain", "increase"}
             /\ \A k \in DOMAIN drafts[i].history : drafts[i].history[k] % Unit = 0)
                => CountedFor(i) = 0

\* an even rent kept at its minimum, next to a proposed cut that is counted
C30_Witness ==
    /\ FreshDrafts
    /\ budgets = << >>
    /\ userProfile # JNull
    /\ impactAnalysis(drafts, avgMonthlyIncome).riskyCuts = 1
    /\ \E i \in DOMAIN drafts :
           /\ drafts[i].strategy = "maintain"
           /\ drafts[i].limit = drafts[i].min
           /\ belowFifth(drafts[i].volatility)
           /\ Len(drafts[i].history) > 1

\* the last budget of the list that names the category
LastFor(list, category) ==
    list[CHOOSE k \in DOMAIN list :
             /\ list[k].category = category
             /\ \A later \in (k + 1)..Len(list) : list[later].category # category]

\* what an addBudget step does to a budget stored before it
KeptOrReplaced ==
    \A j \in DOMAIN budgets :
        /\ j \in DOMAIN budgets'
        /\ budgets'[j].id = budgets[j].id
        /\ budgets'[j].category = budgets[j].category
        /\ IF \E k \in DOMAIN call'.newBudgets :
                  call'.newBudgets[k].category = budgets[j].category
           THEN \A newB \in { LastFor(call'.newBudgets, budgets[j].category) } :
                    /\ budgets'[j].limit = newB.limit
                    /\ budgets'[j].strategy = newB.strategy
           ELSE budgets'[j] = budgets[j]

\* C28: no two stored budgets share a category, and an addBudget call leaves
\* every stored budget in its place under its id, with the limit and the strategy
\* last given for its category in the call, or untouched when the call does not
\* name its category
C28_OneBudgetPerCategory ==
    /\ [](\A i, j \in DOMAIN budgets :
              budgets[i].category = budgets[j].category => i = j)
    /\ [][call'.op = "addBudget" => KeptOrReplaced]_vars

\* a list that names a stored category twice has replaced its limit by the second
\* one, under the id the budget had, next to another stored budget
C28_Witness ==
    /\ call.op = "addBudget"
    /\ Len(call.newBudgets) = 2
    /\ call.newBudgets[1].category = "Eating Out"
    /\ call.newBudgets[2].category = "Eating Out"
    /\ call.newBudgets[1].limit # call.newBudgets[2].limit
    /\ Len(budgets) = 2
    /\ budgets[1] = [Budget(1, "Eating Out", Shillings(5), "aggressive")
                         EXCEPT !.limit = call.newBudgets[2].limit,
                                !.strategy = call.newBudgets[2].strategy]
    /\ budgets[2] = Budget(2, "Savings", Shillings(40), "maintain")

UberLine == "DEBIT CARD TXN AT UBER * PENDING AMSTERDAM     17-11-2025 / 08:52:09"

\* the current call is an enrichTransaction of the Uber line of the test script
UberEnriched == call.op = "enrich" /\ call.transaction.description = Str(UberLine)

\* C25 as stated: for the Uber line the extractor gives a merchant containing
\* "UBER" with cacheKey equal to it, the rule table gives no category for it, and
\* the call goes on to read the cache
C25_UberFallsThrough ==
    UberEnriched =>
        /\ call.identifiedMerchant.t = "string"
        /\ includes(call.identifiedMerchant.v, "UBER")
        /\ call.cacheKey = call.identifiedMerchant.v
        /\ getCategoryForMerchant(call.identifiedMerchant.v) = JNull
        /\ cacheReads = 1

\* C25: for the Uber line the extractor gives the merchant "UBER * PENDING
\* AMSTERDAM" with cacheKey equal to it, the rule table gives "Transport" for it
\* (keyword "uber"), and the call returns that merchant and category at once: it
\* reads no cache and sends no request
C25_UberIsTransport ==
    UberEnriched =>
        /\ call.identifiedMerchant = Str("UBER * PENDING AMSTERDAM")
        /\ includes(call.identifiedMerchant.v, "UBER")
        /\ call.cacheKey = call.identifiedMerchant.v
        /\ getCategoryForMerchant(call.identifiedMerchant.v) = Str("Transport")
        /\ pc = "returned"
        /\ Merchant(result) = call.identifiedMerchant
        /\ Category(result) = Str("Transport")
        /\ cacheReads = 0
        /\ requests = 0
        /\ memoryCache = entry.memory

\* the Uber line has been enriched while storage held a cache not yet read
C25_Witness ==
    /\ UberEnriched
    /\ pc = "returned"
    /\ Category(result) = Str("Transport")
    /\ entry.storage.kind = "json"
    /\ ~memoryCache.loaded

\* the step in which the review effect runs its pre-pass over the rows
PrePassStep == step = "review" /\ enrichAll = "idle" /\ enrichAll' # "idle"

\* what single-item enrich returns for the row before its remote layer, from the
\* cache state the pre-pass starts in
SingleEnrich(row) ==
    enrichLocal(row, heuristicData[row.description.v], memoryCache, localStorage)

\* C26 as stated: for every row whose cacheKey is in the cache, the import pre-pass
\* leaves the merchant and the category that single-item enrich returns for the
\* same row and cache; the extracted merchant wins over the cached one
C26_PrePassAgreesWithEnrich ==
    [][PrePassStep =>
          \A i \in DOMAIN parsedTransactions :
              \A single \in { SingleEnrich(parsedTransactions[i]) } :
                  heuristicData[parsedTransactions[i].description.v].cacheKey
                          \in DOMAIN CacheView(memoryCache, localStorage)
                      => /\ single.returns
                         /\ Get(parsedTransactions'[i], "merchant") = Merchant(single.value)
                         /\ Get(parsedTransactions'[i], "category") = Category(single.value)
      ]_vars

\* C27 as stated: a merchant that extractHeuristicData returns and that is not
\* null is not empty, neither starts nor ends with white space, and holds no two
\* white space characters in a row
C27_MerchantIsClean ==
    (ExtractCalled /\ result.merchant # JNull) =>
        \A merchant \in { result.merchant.v } :
            /\ Len(merchant) > 0
            /\ ~IsSpace(CharAt(merchant, 1))
            /\ ~IsSpace(CharAt(merchant, Len(merchant)))
            /\ \A i \in 1..(Len(merchant) - 1) :
                   ~(IsSpace(CharAt(merchant, i)) /\ IsSpace(CharAt(merchant, i + 1)))


\* every identifyMerchants call made has returned
AllReturned ==
    /\ invocations # << >>
    /\ \A id \in DOMAIN invocations : invocations[id].at = "returned"

\* C29: while a search for a name is in flight no second search for that name is
\* in flight, whichever invocation started it, and when every invocation has
\* returned pendingSearches is empty
C29_OneSearchPerName ==
    /\ \A s \in inFlight : \A t \in inFlight : s.name = t.name => s = t
    /\ AllReturned => pendingSearches = {}

==============================================================================
